---- MODULE Spec2Model ----
(***************************************************************************)
(* Oblivious Randomized Shell Sort: the client (Sort Orchestrator, holds   *)
(* the key) drives the server (Oblivious Store, holds ciphertexts) through *)
(* GetMate / GetPair / WritePair.                                          *)
(*                                                                         *)
(* server[r], client[r], obs[r] are the ShellSortServer object, the        *)
(* ShellSortClient object with the locals of randomized_shellsort /        *)
(* region_compare_exchange, and an observer of the Store's request stream, *)
(* for each sort r that is being run.  Spec runs one sort; SpecObliv runs  *)
(* two sorts side by side on the same seed stream (self-composition).      *)
(* sched is a sort that is run one whole matching at a time, by the same    *)
(* schedule and compare-exchange: scenario S1 under SpecS1, longer arrays  *)
(* under SpecSchedule.                                                     *)
(***************************************************************************)
EXTENDS Integers, Sequences, FiniteSets, TLC

VARIABLES server, client, obs, sched

vars == <<server, client, obs, sched>>

\* ------------------------------------------------------------------ bounds
\* SpecSchedule: array lengths are 2^0 .. 2^MaxLogN.
MaxLogN == 3
\* Plaintexts are drawn from 0 .. MaxVal.
MaxVal == 1
\* generate_seed draws from 1 .. MaxSeed (1 .. 1_000_000 in the source).
MaxSeed == 2
\* SpecStore: the Store answers requests until a counter reaches MaxCount.
MaxCount == 2

\* ------------------------------------------------------- program constants
\* region_compare_exchange(..., c: int = 4)
DefaultC == 4

RECURSIVE Pow2(_)
Pow2(k) == IF k = 0 THEN 1 ELSE 2 * Pow2(k - 1)

RECURSIVE Factorial(_)
Factorial(k) == IF k <= 1 THEN 1 ELSE k * Factorial(k - 1)

\* The power-of-two lengths of the arrays that are uploaded and sorted
\* request by request (longer arrays are sorted under SpecS1 and
\* SpecSchedule).
Sizes == {1, 2, 4}
Values == 0..MaxVal
Seeds == 1..MaxSeed

\* ------------------------------------------------------------- encryption
\* struct.pack(">I", position): four big-endian bytes.
Pack(position) ==
    << (position \div 16777216) % 256, (position \div 65536) % 256,
       (position \div 256) % 256, position % 256 >>

\* struct.unpack("<I", .): the four bytes read low byte first.
UnpackLittleEndian(bytes) ==
    bytes[4] * 16777216 + bytes[3] * 65536 + bytes[2] * 256 + bytes[1]

\* struct.unpack(">I", decrypted_bytes)[0]
Unpack(bytes) ==
    bytes[1] * 16777216 + bytes[2] * 65536 + bytes[3] * 256 + bytes[4]

\* SecureEncryption.encrypt: a Fernet token over the packed integer.  iv is
\* the token's random part (IV and timestamp); the caller supplies a value
\* never used before, as a randomised scheme does but for negligible chance.
Encrypt(position, iv) == [iv |-> iv, body |-> Pack(position)]

\* SecureEncryption.decrypt
Decrypt(encrypted_data) == Unpack(encrypted_data.body)

\* SecureEncryption.decrypt raises: the bytes are not a token (Fernet's
\* InvalidToken), as the placeholder b"" is not.
DecryptFails(encrypted_data) == Len(encrypted_data.body) # 4

\* The plaintexts an array of ciphertexts decrypts to.
Plain(arr) == [p \in DOMAIN arr |-> Decrypt(arr[p])]

\* ----------------------------------------------------------------- server
\* b"": the placeholder InitializeHashArray fills the hash array with.
EmptyCell == [iv |-> 0, body |-> << >>]

\* ShellSortServer.__init__ (the fields of the hash array and of the sorting
\* phase).
ServerNew ==
    [ hash_array       |-> << >>,
      hash_expected    |-> 0,
      hash_received    |-> 0,
      hash_finalized   |-> FALSE,
      encrypted_array  |-> << >>,
      n                |-> 0,
      comparison_count |-> 0,
      write_count      |-> 0,
      perm_cache       |-> << >> ]

\* InitializeHashArray leaving hash_finalized as it is.
InitializeHashArrayKeepFinal(srv, expected) ==
    IF expected <= 0
    THEN [ server |-> srv, status |-> "INVALID_ARGUMENT" ]
    ELSE [ server |-> [ srv EXCEPT !.hash_array = [p \in 0..(expected - 1) |-> EmptyCell],
                                  !.hash_expected = expected,
                                  !.hash_received = 0 ],
           status |-> "OK", success |-> TRUE, expected_size |-> expected ]

\* ShellSortServer.InitializeHashArray
InitializeHashArray(srv, expected) ==
    IF expected <= 0
    THEN [ server |-> srv, status |-> "INVALID_ARGUMENT" ]
    ELSE [ server |-> [ srv EXCEPT !.hash_array = [p \in 0..(expected - 1) |-> EmptyCell],
                                  !.hash_expected = expected,
                                  !.hash_received = 0,
                                  !.hash_finalized = FALSE ],
           status |-> "OK", success |-> TRUE, expected_size |-> expected ]

\* ShellSortServer.SendHashValue
SendHashValue(srv, idx, encrypted_hash) ==
    IF srv.hash_array = << >>
    THEN [ server |-> srv, status |-> "FAILED_PRECONDITION" ]
    ELSE IF ~(0 <= idx /\ idx < srv.hash_expected)
    THEN [ server |-> srv, status |-> "OUT_OF_RANGE" ]
    ELSE [ server |-> [ srv EXCEPT !.hash_array = [@ EXCEPT ![idx] = encrypted_hash],
                                  !.hash_received = @ + 1 ],
           status |-> "OK", success |-> TRUE ]

\* ShellSortServer.FinalizeHashArray
FinalizeHashArray(srv) ==
    [ server |-> [srv EXCEPT !.hash_finalized = TRUE],
      status |-> "OK",
      success |-> (srv.hash_received = srv.hash_expected),
      received |-> srv.hash_received,
      expected |-> srv.hash_expected ]

\* The sorting phase set up with the permutation cache left as it is.
StartSortingKeepCache(srv, cells) ==
    [ srv EXCEPT !.encrypted_array = cells,
                 !.n = Cardinality(DOMAIN cells),
                 !.comparison_count = 0,
                 !.write_count = 0 ]

\* The sorting phase set up with the counters left as they are.
StartSortingKeepCounts(srv, cells) ==
    [ srv EXCEPT !.encrypted_array = cells,
                 !.n = Cardinality(DOMAIN cells),
                 !.perm_cache = << >> ]

\* The sorting phase set up on the array cells: the assignments shared by
\* Initialize and UseHashArrayForSorting.
StartSorting(srv, cells) ==
    [ srv EXCEPT !.encrypted_array = cells,
                 !.n = Cardinality(DOMAIN cells),
                 !.comparison_count = 0,
                 !.write_count = 0,
                 !.perm_cache = << >> ]

\* ShellSortServer.UseHashArrayForSorting
UseHashArrayForSorting(srv) ==
    IF ~srv.hash_finalized
    THEN [ server |-> srv, status |-> "FAILED_PRECONDITION" ]
    ELSE [ server |-> StartSorting(srv, srv.hash_array),
           status |-> "OK", success |-> TRUE,
           array_size |-> Cardinality(DOMAIN srv.hash_array) ]

\* ShellSortServer.Initialize; cells is indexed 0 .. len-1.
Initialize(srv, cells) ==
    [ server |-> StartSorting(srv, cells),
      status |-> "OK",
      success |-> TRUE,
      array_size |-> Cardinality(DOMAIN cells) ]

\* GetPair answering with the two cells the other way round.
GetPairSwapped(srv, idx_a, idx_b) ==
    LET counted == [srv EXCEPT !.comparison_count = @ + 1]
    IN  IF ~(0 <= idx_a /\ idx_a < srv.n /\ 0 <= idx_b /\ idx_b < srv.n)
        THEN [ server |-> counted, status |-> "OUT_OF_RANGE" ]
        ELSE [ server |-> counted, status |-> "OK",
               encrypted_a |-> srv.encrypted_array[idx_b],
               encrypted_b |-> srv.encrypted_array[idx_a] ]

\* ShellSortServer.GetPair: the counter is incremented before the range check.
GetPair(srv, idx_a, idx_b) ==
    LET counted == [srv EXCEPT !.comparison_count = @ + 1]
    IN  IF ~(0 <= idx_a /\ idx_a < srv.n /\ 0 <= idx_b /\ idx_b < srv.n)
        THEN [ server |-> counted, status |-> "OUT_OF_RANGE" ]
        ELSE [ server |-> counted, status |-> "OK",
               encrypted_a |-> srv.encrypted_array[idx_a],
               encrypted_b |-> srv.encrypted_array[idx_b] ]

\* WritePair with the first ciphertext stored in both cells.
WriteCellsSame(arr, idx_a, idx_b, new_encrypted_a, new_encrypted_b) ==
    [ [arr EXCEPT ![idx_a] = new_encrypted_a] EXCEPT ![idx_b] = new_encrypted_a ]

\* The two assignments of WritePair, in the source's order (idx_b last).
WriteCells(arr, idx_a, idx_b, new_encrypted_a, new_encrypted_b) ==
    [ [arr EXCEPT ![idx_a] = new_encrypted_a] EXCEPT ![idx_b] = new_encrypted_b ]

\* WritePair checking each index where it is used: the first cell is written
\* before the second index is looked at.
WritePairCheckLate(srv, idx_a, idx_b, new_encrypted_a, new_encrypted_b) ==
    IF ~(0 <= idx_a /\ idx_a < srv.n)
    THEN [ server |-> srv, status |-> "OUT_OF_RANGE" ]
    ELSE IF ~(0 <= idx_b /\ idx_b < srv.n)
    THEN [ server |-> [srv EXCEPT !.encrypted_array[idx_a] = new_encrypted_a],
           status |-> "OUT_OF_RANGE" ]
    ELSE [ server |-> [ srv EXCEPT
                          !.encrypted_array =
                              WriteCells(@, idx_a, idx_b,
                                         new_encrypted_a, new_encrypted_b),
                          !.write_count = @ + 1 ],
           status |-> "OK", success |-> TRUE ]

\* WritePair counting the cells it updates.
WritePairCountCells(srv, idx_a, idx_b, new_encrypted_a, new_encrypted_b) ==
    IF ~(0 <= idx_a /\ idx_a < srv.n /\ 0 <= idx_b /\ idx_b < srv.n)
    THEN [ server |-> srv, status |-> "OUT_OF_RANGE" ]
    ELSE [ server |-> [ srv EXCEPT
                          !.encrypted_array =
                              WriteCells(@, idx_a, idx_b,
                                         new_encrypted_a, new_encrypted_b),
                          !.write_count = @ + (IF idx_a = idx_b THEN 1 ELSE 2) ],
           status |-> "OK", success |-> TRUE ]

\* WritePair counting a write only when it changes the array.
WritePairCountChanges(srv, idx_a, idx_b, new_encrypted_a, new_encrypted_b) ==
    IF ~(0 <= idx_a /\ idx_a < srv.n /\ 0 <= idx_b /\ idx_b < srv.n)
    THEN [ server |-> srv, status |-> "OUT_OF_RANGE" ]
    ELSE LET written == WriteCells(srv.encrypted_array, idx_a, idx_b,
                                   new_encrypted_a, new_encrypted_b)
         IN  [ server |-> [ srv EXCEPT
                              !.encrypted_array = written,
                              !.write_count = IF written = srv.encrypted_array
                                              THEN @ ELSE @ + 1 ],
               status |-> "OK", success |-> TRUE ]

\* ShellSortServer.WritePair
WritePair(srv, idx_a, idx_b, new_encrypted_a, new_encrypted_b) ==
    IF ~(0 <= idx_a /\ idx_a < srv.n /\ 0 <= idx_b /\ idx_b < srv.n)
    THEN [ server |-> srv, status |-> "OUT_OF_RANGE" ]
    ELSE [ server |-> [ srv EXCEPT
                          !.encrypted_array =
                              WriteCells(@, idx_a, idx_b,
                                         new_encrypted_a, new_encrypted_b),
                          !.write_count = @ + 1 ],
           status |-> "OK", success |-> TRUE ]

\* Digit i of q in the factorial number system, q being what is left after
\* the digits below j: (q \div i!) % (i + 1) of the original q.
RECURSIVE FactorialDigit(_, _, _)
FactorialDigit(q, j, i) ==
    IF j >= i THEN q % (i + 1) ELSE FactorialDigit(q \div (j + 1), j + 1, i)

\* rng.randbelow(i + 1) as drawn by shuffle at position i for random.Random(seed):
\* the generator's stream is a fixed function of the seed; here the digits of
\* seed - 1 in the factorial number system, so that seeds 1 .. size! give every
\* permutation of 0 .. size-1.
RandBelow(seed, i) == FactorialDigit(seed - 1, 1, i)

\* x[i] = x[j] alone: the second half of the exchange is lost.
SwapAssign(x, i, j) == [x EXCEPT ![i] = x[j]]

\* x[i], x[j] = x[j], x[i]
Swap(x, i, j) == [x EXCEPT ![i] = x[j], ![j] = x[i]]

\* random.shuffle: for i in reversed(range(1, len(x))): j = randbelow(i + 1); swap.
RECURSIVE Shuffle(_, _, _)
Shuffle(x, seed, i) ==
    IF i < 1 THEN x ELSE Shuffle(Swap(x, i, RandBelow(seed, i)), seed, i - 1)

\* perm = list(range(size)); random.Random(seed).shuffle(perm)
MakePerm(size, seed) == Shuffle([k \in 0..(size - 1) |-> k], seed, size - 1)

\* GetMate materialising the permutation before it checks the index.
GetMateCacheFirst(srv, size, seed, i) ==
    LET key == <<size, seed>>
        cache == IF key \in DOMAIN srv.perm_cache
                 THEN srv.perm_cache
                 ELSE (key :> MakePerm(size, seed)) @@ srv.perm_cache
    IN  IF ~(0 <= i /\ i < size)
        THEN [ server |-> [srv EXCEPT !.perm_cache = cache], status |-> "OUT_OF_RANGE" ]
        ELSE [ server |-> [srv EXCEPT !.perm_cache = cache],
               status |-> "OK",
               mate   |-> cache[key][i] ]

\* GetMate keeping only the permutation it has just been asked for.
GetMateSingleEntry(srv, size, seed, i) ==
    IF ~(0 <= i /\ i < size)
    THEN [ server |-> srv, status |-> "OUT_OF_RANGE" ]
    ELSE LET key == <<size, seed>>
             cache == IF key \in DOMAIN srv.perm_cache
                      THEN (key :> srv.perm_cache[key])
                      ELSE (key :> MakePerm(size, seed))
         IN  [ server |-> [srv EXCEPT !.perm_cache = cache],
               status |-> "OK",
               mate   |-> cache[key][i] ]

\* ShellSortServer.GetMate
GetMate(srv, size, seed, i) ==
    IF ~(0 <= i /\ i < size)
    THEN [ server |-> srv, status |-> "OUT_OF_RANGE" ]
    ELSE LET key == <<size, seed>>
             cache == IF key \in DOMAIN srv.perm_cache
                      THEN srv.perm_cache
                      ELSE (key :> MakePerm(size, seed)) @@ srv.perm_cache
         IN  [ server |-> [srv EXCEPT !.perm_cache = cache],
               status |-> "OK",
               mate   |-> cache[key][i] ]

\* GetFinalArray handing the array over: the Store keeps none of it.
GetFinalArrayDrain(srv) ==
    [ server |-> [srv EXCEPT !.encrypted_array = << >>, !.n = 0],
      status |-> "OK",
      encrypted_array   |-> srv.encrypted_array,
      total_comparisons |-> srv.comparison_count,
      total_writes      |-> srv.write_count ]

\* ShellSortServer.GetFinalArray
GetFinalArray(srv) ==
    [ server |-> srv, status |-> "OK",
      encrypted_array   |-> srv.encrypted_array,
      total_comparisons |-> srv.comparison_count,
      total_writes      |-> srv.write_count ]

\* ----------------------------------------------------------------- client
\* The direction rule without the descending branch.
CompareExchangeAscending(idx_a, idx_b, a, b) ==
    IF a <= b THEN <<a, b>> ELSE <<b, a>>

\* The direction rule with its two branches the other way round.
CompareExchangeInverted(idx_a, idx_b, a, b) ==
    IF idx_a < idx_b
    THEN (IF a >= b THEN <<a, b>> ELSE <<b, a>>)
    ELSE (IF a <= b THEN <<a, b>> ELSE <<b, a>>)

\* compare_and_prepare_writes, the direction rule: the plaintexts (x, y) to be
\* written to (idx_a, idx_b) for the plaintexts (a, b) read there.
CompareExchange(idx_a, idx_b, a, b) ==
    IF idx_a < idx_b
    THEN (IF a <= b THEN <<a, b>> ELSE <<b, a>>)
    ELSE (IF a >= b THEN <<a, b>> ELSE <<b, a>>)

\* compare_and_prepare_writes that re-encrypts only what it exchanges.
PrepareWritesReuse(idx_a, idx_b, encrypted_a, encrypted_b, iv_a, iv_b) ==
    LET a  == Decrypt(encrypted_a)
        b  == Decrypt(encrypted_b)
        xy == CompareExchange(idx_a, idx_b, a, b)
    IN  IF xy = <<a, b>>
        THEN << encrypted_a, encrypted_b >>
        ELSE << Encrypt(xy[1], iv_a), Encrypt(xy[2], iv_b) >>

\* compare_and_prepare_writes after the GetPair reply: decrypt, order, and
\* re-encrypt both outputs; iv_a, iv_b are the random parts of the two
\* encrypt calls.
PrepareWrites(idx_a, idx_b, encrypted_a, encrypted_b, iv_a, iv_b) ==
    LET a  == Decrypt(encrypted_a)
        b  == Decrypt(encrypted_b)
        xy == CompareExchange(idx_a, idx_b, a, b)
    IN  << Encrypt(xy[1], iv_a), Encrypt(xy[2], iv_b) >>

\* range(start, stop, step) as the sequence of its values.
RECURSIVE PyRange(_, _, _)
PyRange(start, stop, step) ==
    IF (step > 0 /\ start >= stop) \/ (step < 0 /\ start <= stop)
    THEN << >>
    ELSE <<start>> \o PyRange(start + step, stop, step)

\* The for-loops with the 3-hop loop running to num_regions - 2.
PassRangeLong(pass, num_regions) ==
    CASE pass = 1 -> PyRange(0, num_regions - 1, 1)
      [] pass = 2 -> PyRange(num_regions - 2, -1, -1)
      [] pass = 3 -> IF num_regions >= 4 THEN PyRange(0, num_regions - 2, 1)
                     ELSE << >>
      [] pass = 4 -> IF num_regions >= 3 THEN PyRange(0, num_regions - 2, 1)
                     ELSE << >>
      [] pass = 5 -> PyRange(0, num_regions - 1, 2)
      [] pass = 6 -> PyRange(1, num_regions - 1, 2)
      [] OTHER    -> << >>

\* The six for-loops of one iteration of randomized_shellsort, in order:
\* the values i of loop number pass, for num_regions regions.
PassRange(pass, num_regions) ==
    CASE pass = 1 -> PyRange(0, num_regions - 1, 1)
      [] pass = 2 -> PyRange(num_regions - 2, -1, -1)
      [] pass = 3 -> IF num_regions >= 4 THEN PyRange(0, num_regions - 3, 1)
                     ELSE << >>
      [] pass = 4 -> IF num_regions >= 3 THEN PyRange(0, num_regions - 2, 1)
                     ELSE << >>
      [] pass = 5 -> PyRange(0, num_regions - 1, 2)
      [] pass = 6 -> PyRange(1, num_regions - 1, 2)
      [] OTHER    -> << >>

\* The arguments (region_a_start, region_b_start) loop number pass gives
\* region_compare_exchange for loop value i.
PassArgs(pass, i, offset) ==
    CASE pass = 1 -> << i * offset, (i + 1) * offset >>
      [] pass = 2 -> << (i + 1) * offset, i * offset >>
      [] pass = 3 -> << i * offset, (i + 3) * offset >>
      [] pass = 4 -> << i * offset, (i + 2) * offset >>
      [] pass = 5 -> << i * offset, (i + 1) * offset >>
      [] OTHER    -> << i * offset, (i + 1) * offset >>

NumPasses == 6

\* The loop position that follows (pass, k) in the body of the while loop:
\* the next value of the same for-loop, else the first value of the next
\* for-loop that is not empty; pass = NumPasses + 1 when the body is over.
RECURSIVE NextPos(_, _, _)
NextPos(pass, k, num_regions) ==
    IF pass > NumPasses THEN [pass |-> pass, k |-> 0]
    ELSE IF k + 1 <= Len(PassRange(pass, num_regions))
         THEN [pass |-> pass, k |-> k + 1]
         ELSE NextPos(pass + 1, 0, num_regions)

\* ShellSortClient.__init__ and the locals of the driver and the sort.
ClientNew ==
    [ pc |-> "init", current_seed |-> 0, enc_calls |-> 0,
      n |-> 0, offset |-> 0, iteration |-> 0, num_regions |-> 0,
      pass |-> 0, k |-> 0,
      region_a_start |-> 0, region_b_start |-> 0, region_size |-> 0,
      m |-> 0, seed |-> 0, i |-> 0, mate_i |-> 0, idx_a |-> 0, idx_b |-> 0,
      new_enc_a |-> Encrypt(0, 0), new_enc_b |-> Encrypt(0, 0) ]

\* ------------------------------------------------------- observer (ghost)
NoOp == <<"None">>

\* What the Store has been asked so far, and what was uploaded: the last
\* two requests; the offsets of the iterations entered; of the current
\* iteration, the calls of region_compare_exchange; of the current call, the
\* seeds drawn, the matchings completed and the pairs written back.  With
\* keep_history, held[p] is the set of the values cell p has held before the
\* one it holds now.  Of a Store asked on its own: whether an initialisation
\* has succeeded; the GetPair and WritePair requests received, and the
\* WritePair requests answered OK, since the last one; stored[p], the
\* ciphertext the last initialisation or the last WritePair answered OK since
\* put at index p; whether FinalizeHashArray has been served since the last
\* InitializeHashArray answered OK.
ObsNew ==
    [ op_count |-> 0, prev_op |-> NoOp, last_op |-> NoOp,
      uploaded |-> << >>,
      offsets |-> << >>, iter_offset |-> 0, regions |-> << >>,
      seeds_drawn |-> 0, matchings |-> 0, pairs |-> 0,
      read_a |-> 0, read_b |-> 0, old_a |-> Encrypt(0, 0), old_b |-> Encrypt(0, 0),
      keep_history |-> FALSE, held |-> << >>,
      final |-> << >>,
      initialised |-> FALSE,
      get_pair_calls |-> 0, write_pair_calls |-> 0, write_pair_ok |-> 0,
      stored |-> << >>,
      finalize_seen |-> FALSE ]

\* One more request seen by the Store.
Observe(ob, op) ==
    [ob EXCEPT !.op_count = @ + 1, !.prev_op = ob.last_op, !.last_op = op]

\* ------------------------------------------------- one step of one sort
\* run_client: encrypt the input and upload it (initialize_server).
StepInitialize(srv, cl, ob, plain) ==
    LET cells == [p \in DOMAIN plain |-> Encrypt(plain[p], p + 1)]
        resp  == Initialize(srv, cells)
    IN  [ server |-> resp.server,
          client |-> [cl EXCEPT !.enc_calls = Cardinality(DOMAIN plain),
                                !.n = resp.array_size,
                                !.pc = IF resp.success THEN "sort" ELSE "aborted"],
          obs    |-> [ob EXCEPT !.uploaded = plain,
                                !.stored = cells,
                                !.held = IF ob.keep_history
                                         THEN [p \in DOMAIN cells |-> {}]
                                         ELSE << >>] ]

\* randomized_shellsort: offset = n // 2; iteration = 1
StepStartSort(srv, cl, ob) ==
    [ server |-> srv,
      client |-> [cl EXCEPT !.offset = cl.n \div 2, !.iteration = 1,
                            !.pc = "while"],
      obs    |-> ob ]

\* The end of the body with the offset decremented instead of halved.
EndIterationDecrement(cl) ==
    [cl EXCEPT !.offset = cl.offset - 1, !.iteration = @ + 1, !.pc = "while"]

\* The two statements that end the body of the while loop.
EndIteration(cl) ==
    [cl EXCEPT !.offset = cl.offset \div 2, !.iteration = @ + 1, !.pc = "while"]

\* while offset >= 1: num_regions = n // offset, then the first for-loop
\* that has a value.
StepWhile(srv, cl, ob) ==
    IF cl.offset >= 1
    THEN LET num_regions == cl.n \div cl.offset
             pos == NextPos(1, 0, num_regions)
             entered == [cl EXCEPT !.num_regions = num_regions,
                                   !.pass = pos.pass, !.k = pos.k]
         IN  [ server |-> srv,
               client |-> IF pos.pass <= NumPasses
                          THEN [entered EXCEPT !.pc = "call"]
                          ELSE EndIteration(entered),
               obs    |-> [ob EXCEPT !.offsets = Append(@, cl.offset),
                                     !.iter_offset = cl.offset,
                                     !.regions = << >>] ]
    ELSE [ server |-> srv, client |-> [cl EXCEPT !.pc = "sorted"], obs |-> ob ]

\* What follows the return of region_compare_exchange: the next call of the
\* iteration, or the end of the iteration.
AfterRegion(cl) ==
    LET pos == NextPos(cl.pass, cl.k, cl.num_regions)
    IN  IF pos.pass <= NumPasses
        THEN [cl EXCEPT !.pass = pos.pass, !.k = pos.k, !.pc = "call"]
        ELSE EndIteration([cl EXCEPT !.pass = pos.pass, !.k = pos.k])

\* The call region_compare_exchange(client, a_start, b_start, offset) of the
\* current for-loop, up to its `for _ in range(c)`.
StepCall(srv, cl, ob) ==
    LET i    == PassRange(cl.pass, cl.num_regions)[cl.k]
        args == PassArgs(cl.pass, i, cl.offset)
        called == [cl EXCEPT !.region_a_start = args[1],
                             !.region_b_start = args[2],
                             !.region_size = cl.offset,
                             !.m = 0]
    IN  [ server |-> srv,
          client |-> IF 0 < DefaultC THEN [called EXCEPT !.pc = "seed"]
                     ELSE AfterRegion(called),
          obs    |-> [ob EXCEPT !.regions = Append(@, <<args[1], args[2], cl.offset>>),
                                !.matchings = 0, !.seeds_drawn = 0,
                                !.pairs = 0] ]

\* One matching more than c.
AfterMatchingExtra(cl) ==
    IF cl.m + 1 <= DefaultC
    THEN [cl EXCEPT !.m = @ + 1, !.pc = "seed"]
    ELSE AfterRegion(cl)

\* What follows one matching: the next matching, or the return.
AfterMatching(cl) ==
    IF cl.m + 1 < DefaultC
    THEN [cl EXCEPT !.m = @ + 1, !.pc = "seed"]
    ELSE AfterRegion(cl)

\* seed = client.generate_seed(), then `for i in range(region_size)`.
StepSeed(srv, cl, ob, seed) ==
    LET drawn == [cl EXCEPT !.current_seed = seed, !.seed = seed, !.i = 0]
    IN  [ server |-> srv,
          client |-> IF 0 < cl.region_size THEN [drawn EXCEPT !.pc = "get_mate"]
                     ELSE AfterMatching(drawn),
          obs    |-> [ob EXCEPT !.seeds_drawn = @ + 1,
                                !.matchings = IF 0 < cl.region_size THEN @ ELSE @ + 1] ]

\* mate_i = client.get_mate_from_server(region_size, seed, i); idx_a, idx_b
StepGetMate(srv, cl, ob) ==
    LET resp == GetMate(srv, cl.region_size, cl.seed, cl.i)
    IN  [ server |-> resp.server,
          client |-> IF resp.status = "OK"
                     THEN [cl EXCEPT !.mate_i = resp.mate,
                                     !.idx_a = cl.region_a_start + cl.i,
                                     !.idx_b = cl.region_b_start + resp.mate,
                                     !.pc = "get_pair"]
                     ELSE [cl EXCEPT !.pc = "aborted"],
          obs    |-> Observe(ob, <<"GetMate", cl.region_size, cl.seed, cl.i>>) ]

\* What follows one compare-exchange: the next i of
\* `for i in range(region_size)`, or the end of the matching.
AfterPair(cl) ==
    IF cl.i + 1 < cl.region_size
    THEN [cl EXCEPT !.i = @ + 1, !.pc = "get_mate"]
    ELSE AfterMatching(cl)

\* The observer's books after a compare-exchange of the matching is over.
PairObserved(cl, ob) ==
    [ob EXCEPT !.pairs = @ + 1,
               !.matchings = IF cl.i + 1 < cl.region_size THEN @ ELSE @ + 1]

\* A compare-exchange that writes back only when it exchanged the pair.
StepCompareSkip(srv, cl, ob) ==
    LET resp == GetPair(srv, cl.idx_a, cl.idx_b)
        seen == Observe(ob, <<"GetPair", cl.idx_a, cl.idx_b>>)
        a    == Decrypt(resp.encrypted_a)
        b    == Decrypt(resp.encrypted_b)
        new  == PrepareWrites(cl.idx_a, cl.idx_b,
                              resp.encrypted_a, resp.encrypted_b,
                              cl.enc_calls + 1, cl.enc_calls + 2)
    IN  [ server |-> resp.server,
          client |-> IF CompareExchange(cl.idx_a, cl.idx_b, a, b) = <<a, b>>
                     THEN AfterPair(cl)
                     ELSE [cl EXCEPT !.new_enc_a = new[1], !.new_enc_b = new[2],
                                     !.enc_calls = @ + 2, !.pc = "write_pair"],
          obs    |-> [seen EXCEPT !.read_a = a, !.read_b = b,
                                  !.old_a = resp.encrypted_a,
                                  !.old_b = resp.encrypted_b] ]

\* A compare-exchange that gives up the pair when a ciphertext does not
\* decrypt and goes on with the next one.
StepCompareSwallow(srv, cl, ob) ==
    LET resp == GetPair(srv, cl.idx_a, cl.idx_b)
        seen == Observe(ob, <<"GetPair", cl.idx_a, cl.idx_b>>)
    IN  IF resp.status # "OK"
        THEN [ server |-> resp.server,
               client |-> [cl EXCEPT !.pc = "aborted"],
               obs    |-> seen ]
        ELSE IF DecryptFails(resp.encrypted_a) \/ DecryptFails(resp.encrypted_b)
        THEN [ server |-> resp.server,
               client |-> AfterPair(cl),
               obs    |-> [seen EXCEPT !.old_a = resp.encrypted_a,
                                       !.old_b = resp.encrypted_b] ]
        ELSE LET new == PrepareWrites(cl.idx_a, cl.idx_b,
                                      resp.encrypted_a, resp.encrypted_b,
                                      cl.enc_calls + 1, cl.enc_calls + 2)
             IN  [ server |-> resp.server,
                   client |-> [cl EXCEPT !.new_enc_a = new[1],
                                         !.new_enc_b = new[2],
                                         !.enc_calls = @ + 2,
                                         !.pc = "write_pair"],
                   obs    |-> [seen EXCEPT !.read_a = Decrypt(resp.encrypted_a),
                                           !.read_b = Decrypt(resp.encrypted_b),
                                           !.old_a = resp.encrypted_a,
                                           !.old_b = resp.encrypted_b] ]

\* new_enc_a, new_enc_b = client.compare_and_prepare_writes(idx_a, idx_b).
\* A decrypt that raises ends the sort: nothing in the client catches it.
StepCompare(srv, cl, ob) ==
    LET resp == GetPair(srv, cl.idx_a, cl.idx_b)
        seen == Observe(ob, <<"GetPair", cl.idx_a, cl.idx_b>>)
    IN  IF resp.status # "OK"
        THEN [ server |-> resp.server,
               client |-> [cl EXCEPT !.pc = "aborted"],
               obs    |-> seen ]
        ELSE IF DecryptFails(resp.encrypted_a) \/ DecryptFails(resp.encrypted_b)
        THEN [ server |-> resp.server,
               client |-> [cl EXCEPT !.pc = "raised"],
               obs    |-> [seen EXCEPT !.old_a = resp.encrypted_a,
                                       !.old_b = resp.encrypted_b] ]
        ELSE LET new == PrepareWrites(cl.idx_a, cl.idx_b,
                                      resp.encrypted_a, resp.encrypted_b,
                                      cl.enc_calls + 1, cl.enc_calls + 2)
             IN  [ server |-> resp.server,
                   client |-> [cl EXCEPT !.new_enc_a = new[1],
                                         !.new_enc_b = new[2],
                                         !.enc_calls = @ + 2,
                                         !.pc = "write_pair"],
                   obs    |-> [seen EXCEPT !.read_a = Decrypt(resp.encrypted_a),
                                           !.read_b = Decrypt(resp.encrypted_b),
                                           !.old_a = resp.encrypted_a,
                                           !.old_b = resp.encrypted_b] ]

\* client.write_pair(idx_a, idx_b, new_enc_a, new_enc_b), then the next i.
StepWritePair(srv, cl, ob) ==
    LET resp == WritePair(srv, cl.idx_a, cl.idx_b, cl.new_enc_a, cl.new_enc_b)
        seen == Observe(ob, <<"WritePair", cl.idx_a, cl.idx_b>>)
        kept == IF ob.keep_history
                THEN [seen EXCEPT !.held =
                        [p \in DOMAIN @ |->
                            IF p \in {cl.idx_a, cl.idx_b}
                            THEN @[p] \cup {srv.encrypted_array[p]}
                            ELSE @[p]]]
                ELSE seen
    IN  IF resp.status = "OK"
        THEN [ server |-> resp.server,
               client |-> AfterPair(cl),
               obs    |-> PairObserved(cl, [kept EXCEPT !.stored = resp.server.encrypted_array]) ]
        ELSE [ server |-> resp.server,
               client |-> [cl EXCEPT !.pc = "aborted"],
               obs    |-> seen ]

\* client.get_final_array() and the decryption of what it returns.
StepFinal(srv, cl, ob) ==
    LET resp == GetFinalArray(srv)
    IN  [ server |-> resp.server,
          client |-> [cl EXCEPT !.pc = "done"],
          obs    |-> [ob EXCEPT !.final =
                         [p \in DOMAIN resp.encrypted_array |->
                             Decrypt(resp.encrypted_array[p])]] ]

\* ---------------------------------------------------------------- actions
\* The sorts that are run: one under Spec, two under SpecObliv.
Runs == DOMAIN client

AllAt(pc) == \A r \in Runs : client[r].pc = pc

\* Every sort takes the step nxt[r].
Take(nxt) ==
    \E step \in {nxt} :
        /\ server' = [r \in Runs |-> step[r].server]
        /\ client' = [r \in Runs |-> step[r].client]
        /\ obs'    = [r \in Runs |-> step[r].obs]
        /\ UNCHANGED sched

\* The driver uploads an array of a power-of-two length; the sorts that run
\* side by side have the same length.
DoInitialize ==
    /\ AllAt("init")
    /\ \E n \in Sizes :
         \E plain \in [Runs -> [0..(n - 1) -> Values]] :
            Take([r \in Runs |->
                    StepInitialize(server[r], client[r], obs[r], plain[r])])

DoStartSort ==
    /\ AllAt("sort")
    /\ Take([r \in Runs |-> StepStartSort(server[r], client[r], obs[r])])

DoWhile ==
    /\ AllAt("while")
    /\ Take([r \in Runs |-> StepWhile(server[r], client[r], obs[r])])

DoCall ==
    /\ AllAt("call")
    /\ Take([r \in Runs |-> StepCall(server[r], client[r], obs[r])])

\* The sorts that run side by side draw the same seed.
DoGenerateSeed ==
    /\ AllAt("seed")
    /\ \E seed \in Seeds :
         Take([r \in Runs |-> StepSeed(server[r], client[r], obs[r], seed)])

DoGetMate ==
    /\ AllAt("get_mate")
    /\ Take([r \in Runs |-> StepGetMate(server[r], client[r], obs[r])])

DoCompare ==
    /\ AllAt("get_pair")
    /\ Take([r \in Runs |-> StepCompare(server[r], client[r], obs[r])])

DoWritePair ==
    /\ AllAt("write_pair")
    /\ Take([r \in Runs |-> StepWritePair(server[r], client[r], obs[r])])

DoFinal ==
    /\ AllAt("sorted")
    /\ Take([r \in Runs |-> StepFinal(server[r], client[r], obs[r])])

SchedIdle == [server |-> ServerNew, client |-> ClientNew, obs |-> ObsNew]

Init ==
    /\ server = [r \in {1} |-> ServerNew]
    /\ client = [r \in {1} |-> ClientNew]
    /\ obs    = [r \in {1} |-> ObsNew]
    /\ sched = SchedIdle

Next ==
    \/ DoInitialize
    \/ DoStartSort
    \/ DoWhile
    \/ DoCall
    \/ DoGenerateSeed
    \/ DoGetMate
    \/ DoCompare
    \/ DoWritePair
    \/ DoFinal

Spec == Init /\ [][Next]_vars

\* Two sorts of arrays of the same length, run against two stores on the
\* same seed stream.
InitObliv ==
    /\ server = [r \in {1, 2} |-> ServerNew]
    /\ client = [r \in {1, 2} |-> ClientNew]
    /\ obs    = [r \in {1, 2} |-> ObsNew]
    /\ sched = SchedIdle

SpecObliv == InitObliv /\ [][Next]_vars

\* One sort of an array of at most two cells, with the history of every
\* cell kept by the observer.
BlindSizes == {1, 2}

InitBlind ==
    /\ server = [r \in {1} |-> ServerNew]
    /\ client = [r \in {1} |-> ClientNew]
    /\ obs    = [r \in {1} |-> [ObsNew EXCEPT !.keep_history = TRUE]]
    /\ sched = SchedIdle

DoInitializeBlind ==
    /\ AllAt("init")
    /\ \E n \in BlindSizes :
         \E plain \in [Runs -> [0..(n - 1) -> Values]] :
            Take([r \in Runs |->
                    StepInitialize(server[r], client[r], obs[r], plain[r])])

NextBlind ==
    \/ DoInitializeBlind
    \/ DoStartSort
    \/ DoWhile
    \/ DoCall
    \/ DoGenerateSeed
    \/ DoGetMate
    \/ DoCompare
    \/ DoWritePair
    \/ DoFinal

SpecBlind == InitBlind /\ [][NextBlind]_vars

\* ------------------------------------------------- one matching per step
\* sched.server, sched.client and sched.obs are a Store, a sort and its
\* observer; a matching is one step, made of the same GetPair,
\* compare_and_prepare_writes and WritePair, with mate[i] taken from the
\* permutation GetMate computes for the seed.  The random part of the tokens
\* is left out (0).
\*
\* SpecS1 sorts the eight plaintexts of scenario S1 (the first eight of
\* run_client's example input); the seed of a matching ranges over
\* 1 .. size!, which gives every permutation.
\* SpecSchedule sorts arrays of 1 .. 2^MaxLogN cells, in descending order or
\* all equal, on the seeds 1 .. MaxSeed; the sort keeps running until it is
\* done (weak fairness).
S1Input == <<742, 123, 891, 45, 567, 823, 234, 678>>

S1Sorted == <<45, 123, 234, 567, 678, 742, 823, 891>>

\* The cells 0 .. Len-1 of a list.
Cells(list) == [p \in 0..(Len(list) - 1) |-> list[p + 1]]

\* One turn of `for i in range(region_size)`: the pair is read, compared and
\* written back.  The Store it leaves, and the status of the last reply.
MatchPair(srv, cl, perm, i) ==
    LET idx_a == cl.region_a_start + i
        idx_b == cl.region_b_start + perm[i]
    IN  CHOOSE out \in
            { IF resp.status # "OK"
              THEN [server |-> resp.server, status |-> resp.status]
              ELSE LET new == PrepareWrites(idx_a, idx_b, resp.encrypted_a,
                                            resp.encrypted_b, 0, 0)
                       done == WritePair(resp.server, idx_a, idx_b, new[1], new[2])
                   IN  [server |-> done.server, status |-> done.status]
              : resp \in {GetPair(srv, idx_a, idx_b)} } : TRUE

\* `for i in range(region_size)` of one matching, from i on: the Store it
\* leaves, and the status of the last reply.
RECURSIVE MatchFrom(_, _, _, _)
MatchFrom(srv, cl, perm, i) ==
    IF ~(i < cl.region_size) THEN [server |-> srv, status |-> "OK"]
    ELSE CHOOSE out \in
             { IF done.status # "OK" THEN done
               ELSE MatchFrom(done.server, cl, perm, i + 1)
               : done \in {MatchPair(srv, cl, perm, i)} } : TRUE

\* The sort of S1 takes the step nxt.
TakeSched(nxt) ==
    \E step \in {nxt} :
        /\ sched' = [server |-> step.server, client |-> step.client, obs |-> step.obs]
        /\ UNCHANGED <<server, client, obs>>

S1Upload ==
    /\ sched.client.pc = "init"
    /\ LET cells == [p \in DOMAIN Cells(S1Input) |-> Encrypt(Cells(S1Input)[p], 0)]
           resp  == Initialize(sched.server, cells)
       IN  TakeSched([ server |-> resp.server,
                    client |-> [sched.client EXCEPT !.n = resp.array_size,
                                                 !.pc = "sort"],
                    obs    |-> [sched.obs EXCEPT !.uploaded = Cells(S1Input)] ])

SchedStartSort ==
    /\ sched.client.pc = "sort"
    /\ TakeSched(StepStartSort(sched.server, sched.client, sched.obs))

SchedWhile ==
    /\ sched.client.pc = "while"
    /\ TakeSched(StepWhile(sched.server, sched.client, sched.obs))

SchedCall ==
    /\ sched.client.pc = "call"
    /\ TakeSched(StepCall(sched.server, sched.client, sched.obs))

S1Matching ==
    /\ sched.client.pc = "seed"
    /\ \E seed \in 1..Factorial(sched.client.region_size) :
        \E perm \in {MakePerm(sched.client.region_size, seed)} :
        \E done \in {MatchFrom(sched.server, sched.client, perm, 0)} :
              TakeSched([ server |-> done.server,
                       client |-> IF done.status = "OK"
                                  THEN AfterMatching(sched.client)
                                  ELSE [sched.client EXCEPT !.pc = "aborted"],
                       obs    |-> sched.obs ])

SchedFinal ==
    /\ sched.client.pc = "sorted"
    /\ TakeSched(StepFinal(sched.server, sched.client, sched.obs))

NextS1 ==
    \/ S1Upload
    \/ SchedStartSort
    \/ SchedWhile
    \/ SchedCall
    \/ S1Matching
    \/ SchedFinal

SpecS1 == Init /\ [][NextS1]_vars

SchedSizes == {Pow2(e) : e \in 0..MaxLogN}

\* n plaintexts in descending order, and n equal plaintexts.
SchedInputs(n) == { [p \in 0..(n - 1) |-> n - 1 - p], [p \in 0..(n - 1) |-> 0] }

SchedUpload ==
    /\ sched.client.pc = "init"
    /\ \E n \in SchedSizes :
         \E plain \in SchedInputs(n) :
            LET cells == [p \in DOMAIN plain |-> Encrypt(plain[p], 0)]
                resp  == Initialize(sched.server, cells)
            IN  TakeSched([ server |-> resp.server,
                            client |-> [sched.client EXCEPT !.n = resp.array_size,
                                                            !.pc = "sort"],
                            obs    |-> [sched.obs EXCEPT !.uploaded = plain] ])

SchedMatching ==
    /\ sched.client.pc = "seed"
    /\ \E seed \in Seeds :
        \E perm \in {MakePerm(sched.client.region_size, seed)} :
        \E done \in {MatchFrom(sched.server, sched.client, perm, 0)} :
              TakeSched([ server |-> done.server,
                          client |-> IF done.status = "OK"
                                     THEN AfterMatching(sched.client)
                                     ELSE [sched.client EXCEPT !.pc = "aborted"],
                          obs    |-> sched.obs ])

NextSchedule ==
    \/ SchedUpload
    \/ SchedStartSort
    \/ SchedWhile
    \/ SchedCall
    \/ SchedMatching
    \/ SchedFinal

SpecSchedule == Init /\ [][NextSchedule]_vars /\ WF_vars(NextSchedule)

\* ---------------------------------------------------------- the drivers
\* SpecDrivers: the two drivers of the sort, run_client and
\* run_full_pipeline, each up to its call of randomized_shellsort, and the
\* sort that follows, one matching per step.
HashPositions == <<742, 123, 891, 45, 567, 823, 234, 678, 456, 12>>

\* hash_positions.append(999999)
Sentinel == 999999

\* a & b of two integers, b = -1 included where a = 0.
RECURSIVE BitAnd(_, _)
BitAnd(a, b) ==
    IF a = 0 \/ b = 0 THEN 0
    ELSE (a % 2) * (b % 2) + 2 * BitAnd(a \div 2, b \div 2)

\* next_power = 1; while next_power < n: next_power *= 2
RECURSIVE NextPower(_, _)
NextPower(next_power, n) ==
    IF next_power < n THEN NextPower(next_power * 2, n) ELSE next_power

\* run_client: pad to a power of two if needed.
PadToPow2(list) ==
    LET n == Len(list)
    IN  IF BitAnd(n, n - 1) # 0
        THEN [p \in 1..NextPower(1, n) |-> IF p <= n THEN list[p] ELSE Sentinel]
        ELSE list

DriverRunClient ==
    /\ sched.client.pc = "init"
    /\ LET plain == Cells(PadToPow2(HashPositions))
           cells == [p \in DOMAIN plain |-> Encrypt(plain[p], 0)]
           resp  == Initialize(sched.server, cells)
       IN  TakeSched([ server |-> resp.server,
                       client |-> [sched.client EXCEPT !.n = resp.array_size,
                                                       !.pc = "sort"],
                       obs    |-> [sched.obs EXCEPT !.uploaded = plain] ])

\* run_full_pipeline(s, n, k): the numbers of elements and of hash functions.
PipelineS == 1..3
PipelineK == 1..2

\* generate_hash_values_streaming: the encrypted hash positions are sent one
\* by one, from index hash_count on.
RECURSIVE SendHashValues(_, _, _)
SendHashValues(srv, hash_count, expected) ==
    IF ~(hash_count < expected) THEN srv
    ELSE SendHashValues(
             SendHashValue(srv, hash_count, Encrypt(expected - 1 - hash_count, 0)).server,
             hash_count + 1, expected)

DriverRunFullPipeline ==
    /\ sched.client.pc = "init"
    /\ \E s \in PipelineS, k \in PipelineK :
          LET expected == s * k
              ready == InitializeHashArray(sched.server, expected).server
              sent  == SendHashValues(ready, 0, expected)
              final == FinalizeHashArray(sent)
              use   == UseHashArrayForSorting(final.server)
          IN  /\ final.success
              /\ use.success
              /\ TakeSched([ server |-> use.server,
                             client |-> [sched.client EXCEPT !.n = use.array_size,
                                                             !.pc = "sort"],
                             obs    |-> [sched.obs EXCEPT
                                           !.uploaded = Plain(use.server.encrypted_array)] ])

NextDrivers ==
    \/ DriverRunClient
    \/ DriverRunFullPipeline
    \/ SchedStartSort
    \/ SchedWhile
    \/ SchedCall
    \/ SchedMatching
    \/ SchedFinal

SpecDrivers == Init /\ [][NextDrivers]_vars

\* ------------------------------------------------- the Store on its own
\* SpecStore: the Store alone, asked anything by anyone: every request of the
\* sorting phase with any arguments, in range or out of it, in any order.
\* Its state is server[1]; a request that aborts leaves what the handler had
\* assigned before the abort.
StoreTokens == {Encrypt(v, 0) : v \in Values}

\* The arrays a request can carry: 0, 1 or 2 ciphertexts.
StoreArrays == UNION { [0..(len - 1) -> StoreTokens] : len \in 0..2 }

\* Indices in and out of the range of these arrays.
StoreIndices == (0 - 1)..2

\* The sizes and the indices of the GetMate requests: no cell, two cells,
\* three cells.
MateSizes == {0, 2, 3}
MateIndices == (0 - 1)..3
\* Two seeds, the answers to which differ for both sizes.
StoreSeeds == {1, 2}

\* The Store is left as srv and the requests seen as ob.
StoreTake(srv, ob) ==
    /\ server' = [server EXCEPT ![1] = srv]
    /\ obs' = [obs EXCEPT ![1] = ob]
    /\ UNCHANGED <<client, sched>>

\* An initialisation that uploaded cells has been answered OK.
SeenInitialised(ob, cells) ==
    [ob EXCEPT !.initialised = TRUE,
               !.get_pair_calls = 0, !.write_pair_calls = 0, !.write_pair_ok = 0,
               !.stored = cells]

\* A WritePair request has been answered with status.
SeenWritePair(ob, status, idx_a, idx_b, new_encrypted_a, new_encrypted_b) ==
    IF status # "OK"
    THEN [ob EXCEPT !.write_pair_calls = @ + 1]
    ELSE [ob EXCEPT !.write_pair_calls = @ + 1,
                    !.write_pair_ok = @ + 1,
                    !.stored = [p \in DOMAIN @ |->
                                  IF p = idx_b THEN new_encrypted_b
                                  ELSE IF p = idx_a THEN new_encrypted_a
                                  ELSE @[p]]]

StoreInitialize ==
    \E cells \in StoreArrays :
        \E resp \in {Initialize(server[1], cells)} :
            StoreTake(resp.server, SeenInitialised(obs[1], cells))

StoreGetPair ==
    /\ obs[1].get_pair_calls < MaxCount
    /\ \E idx_a \in StoreIndices, idx_b \in StoreIndices :
          StoreTake(GetPair(server[1], idx_a, idx_b).server,
                    [obs[1] EXCEPT !.get_pair_calls = @ + 1])

StoreWritePair ==
    /\ obs[1].write_pair_calls < MaxCount
    /\ \E idx_a \in StoreIndices, idx_b \in StoreIndices :
          \E new_encrypted_a \in StoreTokens, new_encrypted_b \in StoreTokens :
             \E resp \in {WritePair(server[1], idx_a, idx_b,
                                    new_encrypted_a, new_encrypted_b)} :
                StoreTake(resp.server,
                          SeenWritePair(obs[1], resp.status, idx_a, idx_b,
                                        new_encrypted_a, new_encrypted_b))

StoreGetMate ==
    \E size \in MateSizes, seed \in StoreSeeds, i \in MateIndices :
        StoreTake(GetMate(server[1], size, seed, i).server, obs[1])

StoreGetFinalArray ==
    StoreTake(GetFinalArray(server[1]).server, obs[1])

NextStore ==
    \/ StoreInitialize
    \/ StoreGetPair
    \/ StoreWritePair
    \/ StoreGetMate
    \/ StoreGetFinalArray

SpecStore == Init /\ [][NextStore]_vars

\* ---------------------------------------- the Store through its phases
\* SpecPhases: the Store alone, its hash array built and handed to the
\* sorting phase or an array uploaded, with requests of the sorting phase in
\* and out of range before, between and after.
HashValue == Encrypt(0, 0)
Rewritten == Encrypt(1, 1)

\* expected_size of InitializeHashArray: none, one, two.
PhaseSizes == 0..2

\* Arrays uploaded by Initialize: 0 to 3 cells.
PhaseArrays == { [p \in 0..(len - 1) |-> HashValue] : len \in 0..3 }

\* An index in range of every array that is not empty, and one out of range.
PhaseIndices == {0, 3}

PhaseInitializeHashArray ==
    \E expected \in PhaseSizes :
        \E resp \in {InitializeHashArray(server[1], expected)} :
            StoreTake(resp.server,
                      IF resp.status = "OK"
                      THEN [obs[1] EXCEPT !.finalize_seen = FALSE]
                      ELSE obs[1])

PhaseSendHashValue ==
    /\ server[1].hash_received < MaxCount
    /\ \E idx \in StoreIndices :
          StoreTake(SendHashValue(server[1], idx, HashValue).server, obs[1])

PhaseFinalizeHashArray ==
    StoreTake(FinalizeHashArray(server[1]).server,
              [obs[1] EXCEPT !.finalize_seen = TRUE])

PhaseUseHashArrayForSorting ==
    \E resp \in {UseHashArrayForSorting(server[1])} :
        StoreTake(resp.server,
                  IF resp.status = "OK"
                  THEN SeenInitialised(obs[1], server[1].hash_array)
                  ELSE obs[1])

PhaseInitialize ==
    \E cells \in PhaseArrays :
        \E resp \in {Initialize(server[1], cells)} :
            StoreTake(resp.server, SeenInitialised(obs[1], cells))

PhaseGetPair ==
    /\ obs[1].get_pair_calls < MaxCount
    /\ \E idx_a \in PhaseIndices, idx_b \in PhaseIndices :
          StoreTake(GetPair(server[1], idx_a, idx_b).server,
                    [obs[1] EXCEPT !.get_pair_calls = @ + 1])

PhaseWritePair ==
    /\ obs[1].write_pair_calls < MaxCount
    /\ \E idx_a \in PhaseIndices, idx_b \in PhaseIndices :
          \E resp \in {WritePair(server[1], idx_a, idx_b, Rewritten, Rewritten)} :
             StoreTake(resp.server,
                       SeenWritePair(obs[1], resp.status, idx_a, idx_b,
                                     Rewritten, Rewritten))

PhaseGetMate ==
    \E size \in {0, 2}, i \in PhaseIndices :
        StoreTake(GetMate(server[1], size, 1, i).server, obs[1])

NextPhases ==
    \/ PhaseInitializeHashArray
    \/ PhaseSendHashValue
    \/ PhaseFinalizeHashArray
    \/ PhaseUseHashArrayForSorting
    \/ PhaseInitialize
    \/ PhaseGetPair
    \/ PhaseWritePair
    \/ PhaseGetMate

SpecPhases == Init /\ [][NextPhases]_vars

\* The requests a client can send the Store, and the handler each reaches.
Requests ==
    [op : {"InitializeHashArray"}, expected : PhaseSizes]
    \cup [op : {"SendHashValue"}, idx : StoreIndices, encrypted_hash : StoreTokens]
    \cup [op : {"FinalizeHashArray", "UseHashArrayForSorting", "GetFinalArray"}]
    \cup [op : {"Initialize"}, cells : StoreArrays]
    \cup [op : {"GetPair"}, idx_a : StoreIndices, idx_b : StoreIndices]
    \cup [op : {"WritePair"}, idx_a : StoreIndices, idx_b : StoreIndices,
          new_encrypted_a : StoreTokens, new_encrypted_b : StoreTokens]
    \cup [op : {"GetMate"}, size : MateSizes \cup {1}, seed : StoreSeeds, i : MateIndices]

Serve(srv, req) ==
    CASE req.op = "InitializeHashArray" -> InitializeHashArray(srv, req.expected)
      [] req.op = "SendHashValue" -> SendHashValue(srv, req.idx, req.encrypted_hash)
      [] req.op = "FinalizeHashArray" -> FinalizeHashArray(srv)
      [] req.op = "UseHashArrayForSorting" -> UseHashArrayForSorting(srv)
      [] req.op = "Initialize" -> Initialize(srv, req.cells)
      [] req.op = "GetPair" -> GetPair(srv, req.idx_a, req.idx_b)
      [] req.op = "WritePair" -> WritePair(srv, req.idx_a, req.idx_b,
                                           req.new_encrypted_a, req.new_encrypted_b)
      [] req.op = "GetMate" -> GetMate(srv, req.size, req.seed, req.i)
      [] req.op = "GetFinalArray" -> GetFinalArray(srv)

\* ------------------------------------------------- the encryption schemes
\* SpecCrypto: one plaintext is encrypted and decrypted by each of the three
\* schemes a ShellSortClient is given: SecureEncryption, SimpleEncryption and
\* the pipeline's KeyWrapper.  sched holds the plaintext, the key of
\* SimpleEncryption, and for each scheme the token and the decryption once
\* they exist (a list of none or one).
\*
\* Plaintexts at the edges of the bytes of struct.pack(">I", .), up to the
\* largest integer the checker holds.
PlainSamples ==
    {0, 1, 255, 256, 65535, 65536, 16777215, 16777216, 305419896, 2147483647}

\* SimpleEncryption.__init__: key = random.getrandbits(63).
SimpleKeys == {0, 43690, 2147483647}

\* The random parts of two encryptions.
CryptoIvs == {1, 2}

\* a ^ b of two non-negative integers.
RECURSIVE BitXor(_, _)
BitXor(a, b) ==
    IF a = 0 THEN b
    ELSE IF b = 0 THEN a
    ELSE (((a % 2) + (b % 2)) % 2) + 2 * BitXor(a \div 2, b \div 2)

\* SimpleEncryption.encrypt
SimpleEncrypt(key, value) == BitXor(value, key)

\* SimpleEncryption.decrypt
SimpleDecrypt(key, encrypted_value) == BitXor(encrypted_value, key)

\* pickle.dumps of an int: the opcode for its width (BININT1 "K", BININT2
\* "M", BININT "J") and its bytes, low byte first.
PickleDumps(obj) ==
    IF obj < 256 THEN <<75, obj>>
    ELSE IF obj < 65536 THEN <<77, obj % 256, obj \div 256>>
    ELSE <<74, obj % 256, (obj \div 256) % 256,
               (obj \div 65536) % 256, (obj \div 16777216) % 256>>

\* pickle.loads
PickleLoads(pt) ==
    CASE pt[1] = 75 -> pt[2]
      [] pt[1] = 77 -> pt[2] + pt[3] * 256
      [] OTHER      -> pt[2] + pt[3] * 256 + pt[4] * 65536 + pt[5] * 16777216

BLOCK_SIZE == 16

\* Crypto.Util.Padding.pad: 1 .. block_size bytes, each the number added.
Pad(data, block_size) ==
    LET padding_len == block_size - (Len(data) % block_size)
    IN  data \o [j \in 1..padding_len |-> padding_len]

\* Crypto.Util.Padding.unpad
Unpad(padded, block_size) ==
    SubSeq(padded, 1, Len(padded) - padded[Len(padded)])

\* SE_SEnc: iv || AES-CBC(Ke, iv, pad(pickle(obj))).  The cipher is a keyed
\* bijection on the padded bytes, kept as the bytes under the key's name.
SE_SEnc(Ke, iv, obj) ==
    [ iv |-> iv, ct |-> [key |-> Ke, data |-> Pad(PickleDumps(obj), BLOCK_SIZE)] ]

\* SE_SDec, with the key the data was encrypted under.
SE_SDec(Ke, data) == PickleLoads(Unpad(data.ct.data, BLOCK_SIZE))

\* KeyWrapper.encrypt
WrapperEncrypt(se_key, iv, value) == SE_SEnc(se_key, iv, value)

\* KeyWrapper.decrypt: the unpickled object is an int here, so it is
\* returned as it is.
WrapperDecrypt(se_key, encrypted_value) == SE_SDec(se_key, encrypted_value)

InitCrypto ==
    /\ server = [r \in {1} |-> ServerNew]
    /\ client = [r \in {1} |-> ClientNew]
    /\ obs    = [r \in {1} |-> ObsNew]
    /\ sched \in [ value : PlainSamples, simple_key : SimpleKeys,
                   secure_token : {<< >>}, secure_plain : {<< >>},
                   simple_token : {<< >>}, simple_plain : {<< >>},
                   wrapper_token : {<< >>}, wrapper_plain : {<< >>} ]

CryptoTake(nxt) ==
    /\ sched' = nxt
    /\ UNCHANGED <<server, client, obs>>

CryptoSecureEncrypt ==
    /\ sched.secure_token = << >>
    /\ \E iv \in CryptoIvs :
          CryptoTake([sched EXCEPT !.secure_token = <<Encrypt(sched.value, iv)>>])

CryptoSecureDecrypt ==
    /\ sched.secure_token # << >>
    /\ sched.secure_plain = << >>
    /\ CryptoTake([sched EXCEPT !.secure_plain = <<Decrypt(sched.secure_token[1])>>])

CryptoSimpleEncrypt ==
    /\ sched.simple_token = << >>
    /\ CryptoTake([sched EXCEPT !.simple_token =
                      <<SimpleEncrypt(sched.simple_key, sched.value)>>])

CryptoSimpleDecrypt ==
    /\ sched.simple_token # << >>
    /\ sched.simple_plain = << >>
    /\ CryptoTake([sched EXCEPT !.simple_plain =
                      <<SimpleDecrypt(sched.simple_key, sched.simple_token[1])>>])

CryptoWrapperEncrypt ==
    /\ sched.wrapper_token = << >>
    /\ \E iv \in CryptoIvs :
          CryptoTake([sched EXCEPT !.wrapper_token =
                         <<WrapperEncrypt("Ke", iv, sched.value)>>])

CryptoWrapperDecrypt ==
    /\ sched.wrapper_token # << >>
    /\ sched.wrapper_plain = << >>
    /\ CryptoTake([sched EXCEPT !.wrapper_plain =
                      <<WrapperDecrypt("Ke", sched.wrapper_token[1])>>])

NextCrypto ==
    \/ CryptoSecureEncrypt
    \/ CryptoSecureDecrypt
    \/ CryptoSimpleEncrypt
    \/ CryptoSimpleDecrypt
    \/ CryptoWrapperEncrypt
    \/ CryptoWrapperDecrypt

SpecCrypto == InitCrypto /\ [][NextCrypto]_vars

\* ------------------------------------------------- the Store's thread pool
\* SpecPool: serve() hands the one ShellSortServer object to a pool of
\* worker threads, and each RPC runs its handler on a worker with no lock
\* held; a thread can be switched out between two bytecodes, so between any
\* two accesses to a field of the object.  server[1] is the shared object;
\* sched.workers[w] is worker w: where it is in its handler and the
\* handler's locals; sched.accepted is the number of RPCs taken on so far;
\* sched.stores[key] is the number of times a permutation has been stored
\* under key.  An array of two cells is uploaded first; then GetMate,
\* GetPair and WritePair requests arrive, MaxCount of them in all.
\*
\* Two of the ten workers of ThreadPoolExecutor(max_workers=10).
Workers == {1, 2}

\* The k-th pair of encryptions the client makes carries the random parts
\* 2k - 1 and 2k: the upload is pair 1, the tokens of the j-th WritePair
\* request are pair j + 1.
Batch(token) == (token.iv + 1) \div 2

PoolUploaded == (0 :> Encrypt(1, 1)) @@ (1 :> Encrypt(0, 2))

\* The RPCs that can arrive as the number-th request.
PoolRequests(number) ==
    [op : {"GetMate"}, size : {2}, seed : {1}, i : {0, 1}]
    \cup [op : {"GetPair"}, idx_a : {0}, idx_b : {1}]
    \cup [op : {"WritePair"}, idx_a : {0}, idx_b : {1},
          new_encrypted_a : {Encrypt(0, 2 * number + 1)},
          new_encrypted_b : {Encrypt(1, 2 * number + 2)}]

WorkerIdle ==
    [ pc |-> "idle", req |-> [op |-> "None"], count |-> 0,
      encrypted_a |-> EmptyCell, encrypted_b |-> EmptyCell,
      replied |-> "None" ]

InitPool ==
    /\ server = [r \in {1} |-> ServerNew]
    /\ client = [r \in {1} |-> ClientNew]
    /\ obs    = [r \in {1} |-> ObsNew]
    /\ sched = [ workers |-> [w \in Workers |-> WorkerIdle],
                 uploaded |-> FALSE, accepted |-> 0, stores |-> << >> ]

\* The shared object is left as srv and the pool as pool.
PoolTake(srv, pool) ==
    /\ server' = [server EXCEPT ![1] = srv]
    /\ sched' = pool
    /\ UNCHANGED <<client, obs>>

\* Worker w goes on as next.
PoolStep(srv, w, next) == PoolTake(srv, [sched EXCEPT !.workers[w] = next])

\* The sequential client uploads the array before anything else is asked.
PoolUpload ==
    /\ ~sched.uploaded
    /\ PoolTake(Initialize(server[1], PoolUploaded).server,
                [sched EXCEPT !.uploaded = TRUE])

\* The pool gives an RPC to an idle worker.
PoolAccept ==
    /\ sched.uploaded
    /\ sched.accepted < MaxCount
    /\ \E w \in Workers :
          /\ sched.workers[w].pc = "idle"
          /\ \E req \in PoolRequests(sched.accepted + 1) :
                PoolTake(server[1],
                         [sched EXCEPT !.accepted = @ + 1,
                                       !.workers[w] =
                                           [WorkerIdle EXCEPT !.pc = req.op, !.req = req]])

\* GetMate up to `if key not in self.perm_cache`.
PoolMateTest ==
    \E w \in Workers :
        LET me  == sched.workers[w]
            req == me.req
        IN  /\ me.pc = "GetMate"
            /\ PoolStep(server[1], w,
                  IF ~(0 <= req.i /\ req.i < req.size)
                  THEN [me EXCEPT !.pc = "idle", !.replied = "OUT_OF_RANGE"]
                  ELSE IF <<req.size, req.seed>> \notin DOMAIN server[1].perm_cache
                  THEN [me EXCEPT !.pc = "mate_store"]
                  ELSE [me EXCEPT !.pc = "mate_reply"])

\* rng.shuffle(perm); self.perm_cache[key] = perm
PoolMateStore ==
    \E w \in Workers :
        LET me  == sched.workers[w]
            req == me.req
            key == <<req.size, req.seed>>
        IN  /\ me.pc = "mate_store"
            /\ PoolTake([server[1] EXCEPT !.perm_cache =
                            (key :> MakePerm(req.size, req.seed)) @@ @],
                        [sched EXCEPT
                            !.workers[w] = [me EXCEPT !.pc = "mate_reply"],
                            !.stores = (key :> (IF key \in DOMAIN @ THEN @[key] ELSE 0) + 1)
                                       @@ @])

\* return MateResponse(mate=self.perm_cache[key][i])
PoolMateReply ==
    \E w \in Workers :
        LET me  == sched.workers[w]
            req == me.req
        IN  /\ me.pc = "mate_reply"
            /\ PoolStep(server[1], w,
                  [me EXCEPT !.pc = "idle", !.replied = "GetMate",
                             !.count = server[1].perm_cache[<<req.size, req.seed>>][req.i]])

\* self.comparison_count += 1, the read.
PoolPairLoad ==
    \E w \in Workers :
        LET me == sched.workers[w]
        IN  /\ me.pc = "GetPair"
            /\ PoolStep(server[1], w,
                  [me EXCEPT !.pc = "pair_store", !.count = server[1].comparison_count])

\* self.comparison_count += 1, the write; then the range check.
PoolPairStore ==
    \E w \in Workers :
        LET me  == sched.workers[w]
            req == me.req
            n   == server[1].n
        IN  /\ me.pc = "pair_store"
            /\ PoolStep([server[1] EXCEPT !.comparison_count = me.count + 1], w,
                  IF ~(0 <= req.idx_a /\ req.idx_a < n /\ 0 <= req.idx_b /\ req.idx_b < n)
                  THEN [me EXCEPT !.pc = "idle", !.replied = "OUT_OF_RANGE"]
                  ELSE [me EXCEPT !.pc = "pair_read_a"])

\* encrypted_a=self.encrypted_array[idx_a]
PoolPairReadA ==
    \E w \in Workers :
        LET me == sched.workers[w]
        IN  /\ me.pc = "pair_read_a"
            /\ PoolStep(server[1], w,
                  [me EXCEPT !.pc = "pair_read_b",
                             !.encrypted_a = server[1].encrypted_array[me.req.idx_a]])

\* encrypted_b=self.encrypted_array[idx_b], and the reply.
PoolPairReadB ==
    \E w \in Workers :
        LET me == sched.workers[w]
        IN  /\ me.pc = "pair_read_b"
            /\ PoolStep(server[1], w,
                  [me EXCEPT !.pc = "idle", !.replied = "GetPair",
                             !.encrypted_b = server[1].encrypted_array[me.req.idx_b]])

\* WritePair up to self.encrypted_array[idx_a] = request.new_encrypted_a
PoolWriteA ==
    \E w \in Workers :
        LET me  == sched.workers[w]
            req == me.req
            n   == server[1].n
        IN  /\ me.pc = "WritePair"
            /\ IF ~(0 <= req.idx_a /\ req.idx_a < n /\ 0 <= req.idx_b /\ req.idx_b < n)
               THEN PoolStep(server[1], w,
                             [me EXCEPT !.pc = "idle", !.replied = "OUT_OF_RANGE"])
               ELSE PoolStep([server[1] EXCEPT
                                 !.encrypted_array[req.idx_a] = req.new_encrypted_a],
                             w, [me EXCEPT !.pc = "write_b"])

\* self.encrypted_array[idx_b] = request.new_encrypted_b
PoolWriteB ==
    \E w \in Workers :
        LET me  == sched.workers[w]
            req == me.req
        IN  /\ me.pc = "write_b"
            /\ PoolStep([server[1] EXCEPT
                            !.encrypted_array[req.idx_b] = req.new_encrypted_b],
                        w, [me EXCEPT !.pc = "write_load"])

\* self.write_count += 1, the read.
PoolWriteLoad ==
    \E w \in Workers :
        LET me == sched.workers[w]
        IN  /\ me.pc = "write_load"
            /\ PoolStep(server[1], w,
                  [me EXCEPT !.pc = "write_store", !.count = server[1].write_count])

\* self.write_count += 1, the write, and the reply.
PoolWriteStore ==
    \E w \in Workers :
        LET me == sched.workers[w]
        IN  /\ me.pc = "write_store"
            /\ PoolStep([server[1] EXCEPT !.write_count = me.count + 1], w,
                  [me EXCEPT !.pc = "idle", !.replied = "WritePair"])

NextPool ==
    \/ PoolUpload
    \/ PoolAccept
    \/ PoolMateTest
    \/ PoolMateStore
    \/ PoolMateReply
    \/ PoolPairLoad
    \/ PoolPairStore
    \/ PoolPairReadA
    \/ PoolPairReadB
    \/ PoolWriteA
    \/ PoolWriteB
    \/ PoolWriteLoad
    \/ PoolWriteStore

SpecPool == InitPool /\ [][NextPool]_vars

\* ------------------------------------------- a sort that cannot decrypt
\* SpecAbort: the sort run request by request, on arrays of one or two
\* cells uploaded by the driver, and on a hash array of four cells that was
\* finalised and handed to the sorting phase with one value never sent: that
\* cell is still the placeholder b"", which does not decrypt.
AbortSize == 4

\* SendHashValue for every index from idx on but missing.
RECURSIVE SendAllBut(_, _, _, _)
SendAllBut(srv, plain, missing, idx) ==
    IF ~(idx < AbortSize) THEN srv
    ELSE SendAllBut(
             IF idx = missing THEN srv
             ELSE SendHashValue(srv, idx, Encrypt(plain[idx], idx + 1)).server,
             plain, missing, idx + 1)

\* The hash array is built and becomes the array of the sort.
StepUseHashArray(srv, cl, ob, plain, missing) ==
    LET ready == InitializeHashArray(srv, AbortSize).server
        sent  == SendAllBut(ready, plain, missing, 0)
        final == FinalizeHashArray(sent)
        use   == UseHashArrayForSorting(final.server)
    IN  [ server |-> use.server,
          client |-> [cl EXCEPT !.enc_calls = AbortSize,
                                !.n = IF use.status = "OK" THEN use.array_size ELSE 0,
                                !.pc = IF use.status = "OK" THEN "sort" ELSE "aborted"],
          obs    |-> [ob EXCEPT !.uploaded = plain,
                                !.stored = use.server.encrypted_array] ]

DoUseHashArray ==
    /\ AllAt("init")
    /\ \E plain \in [0..(AbortSize - 1) -> Values], missing \in 0..(AbortSize - 1) :
          Take([r \in Runs |->
                  StepUseHashArray(server[r], client[r], obs[r], plain, missing)])

NextAbort ==
    \/ DoInitializeBlind
    \/ DoUseHashArray
    \/ DoStartSort
    \/ DoWhile
    \/ DoCall
    \/ DoGenerateSeed
    \/ DoGetMate
    \/ DoCompare
    \/ DoWritePair
    \/ DoFinal

SpecAbort == Init /\ [][NextAbort]_vars

\* ------------------------------------------- requests and their returns
\* SpecRpc: the sort with every call of the stub in two halves, the request
\* going out and the reply coming back, and the Store serving a request in
\* between.  sched.outstanding holds the requests sent and not yet served,
\* sched.replies what the Store has answered and the client has not yet
\* taken; a request carries the client's locals at the call (its arguments)
\* and a reply the client's state after the return.
RpcValues == 0..1

\* The statements that call the stub.
RpcCalls == {"init", "get_mate", "get_pair", "write_pair", "sorted"}

\* A call of the stub that returns at once, the request sent.
NotBlocked(cl) == cl

\* A call of the stub returns only with the reply.
Blocked(cl) == [cl EXCEPT !.pc = "await"]

\* The handler the Store runs for a request, and the return of the call.
RpcStep(srv, req, ob) ==
    CASE req.cl.pc = "init"       -> StepInitialize(srv, req.cl, ob, req.plain)
      [] req.cl.pc = "get_mate"   -> StepGetMate(srv, req.cl, ob)
      [] req.cl.pc = "get_pair"   -> StepCompare(srv, req.cl, ob)
      [] req.cl.pc = "write_pair" -> StepWritePair(srv, req.cl, ob)
      [] OTHER                    -> StepFinal(srv, req.cl, ob)

InitRpc ==
    /\ server = [r \in {1} |-> ServerNew]
    /\ client = [r \in {1} |-> ClientNew]
    /\ obs    = [r \in {1} |-> ObsNew]
    /\ sched = [outstanding |-> << >>, replies |-> << >>]

\* The arrays the driver uploads.
RpcInputs == UNION {[0..(n - 1) -> RpcValues] : n \in Sizes}

\* self.stub.<Method>(request): the request leaves the client.
RpcIssue ==
    \E r \in Runs :
        /\ client[r].pc \in RpcCalls
        /\ \E plain \in IF client[r].pc = "init" THEN RpcInputs ELSE {<< >>} :
              sched' = [sched EXCEPT !.outstanding =
                           Append(@, [cl |-> client[r], plain |-> plain])]
        /\ client' = [client EXCEPT ![r] = Blocked(@)]
        /\ UNCHANGED <<server, obs>>

\* The Store serves the oldest request.
RpcServe ==
    \E r \in Runs :
        /\ sched.outstanding # << >>
        /\ \E step \in {RpcStep(server[r], Head(sched.outstanding), obs[r])} :
              /\ server' = [server EXCEPT ![r] = step.server]
              /\ obs' = [obs EXCEPT ![r] = step.obs]
              /\ sched' = [outstanding |-> Tail(sched.outstanding),
                           replies |-> Append(sched.replies, step.client)]
        /\ UNCHANGED client

\* The call returns: the client goes on from the reply.
RpcReturn ==
    \E r \in Runs :
        /\ sched.replies # << >>
        /\ client' = [client EXCEPT ![r] = Head(sched.replies)]
        /\ sched' = [sched EXCEPT !.replies = Tail(@)]
        /\ UNCHANGED <<server, obs>>

NextRpc ==
    \/ RpcIssue
    \/ RpcServe
    \/ RpcReturn
    \/ DoStartSort
    \/ DoWhile
    \/ DoCall
    \/ DoGenerateSeed

SpecRpc == InitRpc /\ [][NextRpc]_vars

\* ------------------------------------------- the pairs of one matching
\* SpecMatch: the sort run request by request, with sched the list of the
\* pairs (idx_a, idx_b) the current matching has read so far: emptied when a
\* seed is drawn, one pair longer at every GetPair.
InitMatch ==
    /\ server = [r \in {1} |-> ServerNew]
    /\ client = [r \in {1} |-> ClientNew]
    /\ obs    = [r \in {1} |-> ObsNew]
    /\ sched = << >>

\* seed = client.generate_seed(): a matching begins.
MatchGenerateSeed ==
    /\ AllAt("seed")
    /\ \E seed \in Seeds :
         \E step \in {[r \in Runs |-> StepSeed(server[r], client[r], obs[r], seed)]} :
            /\ server' = [r \in Runs |-> step[r].server]
            /\ client' = [r \in Runs |-> step[r].client]
            /\ obs'    = [r \in Runs |-> step[r].obs]
            /\ sched' = << >>

\* client.compare_and_prepare_writes(idx_a, idx_b): one more pair.
MatchCompare ==
    /\ AllAt("get_pair")
    /\ \E step \in {[r \in Runs |-> StepCompare(server[r], client[r], obs[r])]} :
          /\ server' = [r \in Runs |-> step[r].server]
          /\ client' = [r \in Runs |-> step[r].client]
          /\ obs'    = [r \in Runs |-> step[r].obs]
          /\ sched' = Append(sched, <<client[1].idx_a, client[1].idx_b>>)

NextMatch ==
    \/ DoInitialize
    \/ DoStartSort
    \/ DoWhile
    \/ DoCall
    \/ MatchGenerateSeed
    \/ DoGetMate
    \/ MatchCompare
    \/ DoWritePair
    \/ DoFinal

SpecMatch == InitMatch /\ [][NextMatch]_vars

\* ================================================================= claims
Range(f) == {f[p] : p \in DOMAIN f}

Count(f, v) == Cardinality({p \in DOMAIN f : f[p] = v})

SameMultiset(f, g) ==
    \A v \in Range(f) \cup Range(g) : Count(f, v) = Count(g, v)

Kind(op) == op[1]

\* C1: multiset preservation.  From the upload on, so after every WritePair
\* of the sort, at every prefix of the schedule and at completion, the
\* multiset of the plaintexts held in A[0..N) is the multiset uploaded.
C1_MultisetPreserved ==
    \A r \in Runs :
        client[r].pc # "init" =>
            SameMultiset(Plain(server[r].encrypted_array), obs[r].uploaded)

\* A WritePair in the middle of a sort has exchanged two plaintexts.
C1_Witness ==
    \E r \in Runs :
        /\ Kind(obs[r].last_op) = "WritePair"
        /\ client[r].pc \in {"get_mate", "seed", "call"}
        /\ obs[r].read_a # Decrypt(server[r].encrypted_array[client[r].idx_a])
        /\ Plain(server[r].encrypted_array) # obs[r].uploaded

\* The request a sort sends the Store next, if its next step sends one.
PendingOp(cl) ==
    CASE cl.pc = "get_mate"   -> <<"GetMate", cl.region_size, cl.seed, cl.i>>
      [] cl.pc = "get_pair"   -> <<"GetPair", cl.idx_a, cl.idx_b>>
      [] cl.pc = "write_pair" -> <<"WritePair", cl.idx_a, cl.idx_b>>
      [] OTHER                -> <<"None", cl.pc>>

\* C2: obliviousness.  Two sorts of inputs of the same length on the same
\* seed stream have sent the Store the same number of requests, the same
\* last two requests (kind and indices), and send the same request next:
\* request by request, the two sequences are identical.
C2_Oblivious ==
    \A r1, r2 \in Runs :
        /\ obs[r1].op_count = obs[r2].op_count
        /\ obs[r1].prev_op = obs[r2].prev_op
        /\ obs[r1].last_op = obs[r2].last_op
        /\ PendingOp(client[r1]) = PendingOp(client[r2])

\* Two sorts of different inputs, one of which exchanges the pair it has
\* just read while the other leaves its pair as it is.
C2_Witness ==
    \E r1, r2 \in Runs :
        /\ obs[r1].uploaded # obs[r2].uploaded
        /\ client[r1].pc = "write_pair" /\ client[r2].pc = "write_pair"
        /\ Decrypt(client[r1].new_enc_a) # obs[r1].read_a
        /\ Decrypt(client[r2].new_enc_a) = obs[r2].read_a
        /\ client[r1].region_size = 2

\* C3: each GetPair(idx_a, idx_b) is followed, before any other request, by
\* one WritePair on the same indices, whatever the plaintexts: after a
\* GetPair the sort is about to write that pair, a WritePair directly
\* follows a GetPair of its indices, nothing but that WritePair follows a
\* GetPair, and the Store has counted as many writes as completed reads.
C3_WriteFollowsRead ==
    \A r \in Runs :
        LET ob == obs[r]
            cl == client[r]
        IN  /\ Kind(ob.last_op) = "GetPair" =>
                  /\ cl.pc = "write_pair"
                  /\ ob.last_op = <<"GetPair", cl.idx_a, cl.idx_b>>
                  /\ server[r].write_count = server[r].comparison_count - 1
            /\ Kind(ob.last_op) = "WritePair" =>
                  ob.prev_op = <<"GetPair", ob.last_op[2], ob.last_op[3]>>
            /\ Kind(ob.prev_op) = "GetPair" =>
                  ob.last_op = <<"WritePair", ob.prev_op[2], ob.prev_op[3]>>
            /\ Kind(ob.last_op) # "GetPair" =>
                  server[r].write_count = server[r].comparison_count

\* A WritePair has been issued for a pair that was read equal, and one for a
\* pair that was read in the required order already.
C3_Witness ==
    \E r \in Runs :
        /\ Kind(obs[r].last_op) = "WritePair"
        /\ obs[r].read_a = obs[r].read_b
        /\ server[r].write_count > 1

\* C4: write blindness.  The ciphertext a cell holds differs from every
\* value the cell has held before, so each WritePair stores two ciphertexts
\* new to their positions, also where the plaintext did not change; and the
\* two cells of the last WritePair hold the two tokens of the two encrypt
\* calls made for it.
C4_WriteBlind ==
    \A r \in Runs :
        /\ \A p \in DOMAIN obs[r].held :
              server[r].encrypted_array[p] \notin obs[r].held[p]
        /\ Kind(obs[r].last_op) = "WritePair" =>
              LET arr == server[r].encrypted_array
                  ia  == obs[r].last_op[2]
                  ib  == obs[r].last_op[3]
              IN  /\ arr[ia].iv = client[r].enc_calls - 1
                  /\ arr[ib].iv = client[r].enc_calls
                  /\ arr[ia] # obs[r].old_a
                  /\ arr[ib] # obs[r].old_b

\* Scenario S6: two equal plaintexts have been sorted; both cells have been
\* rewritten, hold ciphertexts that are not the uploaded ones, and decrypt
\* to the uploaded plaintext.
C4_Witness ==
    \E r \in Runs :
        /\ client[r].pc = "done"
        /\ server[r].n = 2
        /\ obs[r].uploaded[0] = obs[r].uploaded[1]
        /\ \A p \in {0, 1} :
              /\ Cardinality(obs[r].held[p]) = 12
              /\ Encrypt(obs[r].uploaded[p], p + 1) \in obs[r].held[p]
              /\ server[r].encrypted_array[p] # Encrypt(obs[r].uploaded[p], p + 1)
              /\ obs[r].final[p] = obs[r].uploaded[p]

Min(a, b) == IF a <= b THEN a ELSE b

Max(a, b) == IF a >= b THEN a ELSE b

\* C5: compare-exchange direction.  After the WritePair of a compare-exchange
\* that read the plaintexts (a, b) at (idx_a, idx_b): idx_a holds min(a, b)
\* and idx_b max(a, b) if idx_a < idx_b, idx_a holds max(a, b) and idx_b
\* min(a, b) if idx_a > idx_b; the lower index holds a plaintext <= that of
\* the higher index; and equal plaintexts are written back as read.
C5_Direction ==
    \A r \in Runs :
        Kind(obs[r].last_op) = "WritePair" =>
            LET plain == Plain(server[r].encrypted_array)
                idx_a == obs[r].last_op[2]
                idx_b == obs[r].last_op[3]
                a     == obs[r].read_a
                b     == obs[r].read_b
            IN  /\ idx_a < idx_b =>
                      plain[idx_a] = Min(a, b) /\ plain[idx_b] = Max(a, b)
                /\ idx_a > idx_b =>
                      plain[idx_a] = Max(a, b) /\ plain[idx_b] = Min(a, b)
                /\ plain[Min(idx_a, idx_b)] <= plain[Max(idx_a, idx_b)]
                /\ a = b => plain[idx_a] = a /\ plain[idx_b] = b

\* A compare-exchange with idx_a > idx_b has read a < b and exchanged them.
C5_Witness ==
    \E r \in Runs :
        /\ Kind(obs[r].last_op) = "WritePair"
        /\ obs[r].last_op[2] > obs[r].last_op[3]
        /\ obs[r].read_a < obs[r].read_b
        /\ Decrypt(server[r].encrypted_array[obs[r].last_op[2]]) = obs[r].read_b

\* C6: scenario S1.  Whatever matchings GetMate returns, when the schedule
\* for the eight plaintexts of S1 is over the array decrypts to
\* [45, 123, 234, 567, 678, 742, 823, 891], with comparisons > 0 and
\* writes > 0.
C6_ScenarioS1 ==
    sched.client.pc \in {"sorted", "done"} =>
        /\ Plain(sched.server.encrypted_array) = Cells(S1Sorted)
        /\ sched.server.comparison_count > 0
        /\ sched.server.write_count > 0

\* The schedule for S1 is over: 272 compare-exchanges have been made.
C6_Witness ==
    /\ sched.client.pc = "done"
    /\ Plain(sched.server.encrypted_array) = Cells(S1Sorted)
    /\ sched.server.comparison_count = 272
    /\ sched.server.write_count = 272

\* The elements of a finite set of integers in increasing order.
RECURSIVE Ascending(_)
Ascending(S) ==
    IF S = {} THEN << >>
    ELSE LET lo == CHOOSE x \in S : \A y \in S : x <= y
         IN  <<lo>> \o Ascending(S \ {lo})

Reverse(seq) == [j \in 1..Len(seq) |-> seq[Len(seq) + 1 - j]]

\* The region pairs (a_start, b_start, size) for the values of i in order,
\* pairing region i + da with region i + db.
RegionPairs(order, da, db, offset) ==
    [j \in 1..Len(order) |->
        << (order[j] + da) * offset, (order[j] + db) * offset, offset >>]

\* The calls of one iteration as C7 lists them.
ClaimedIteration(n, offset) ==
    LET num_regions == n \div offset
        adjacent    == 0..(num_regions - 2)
    IN  RegionPairs(Ascending(adjacent), 0, 1, offset)
        \o RegionPairs(Reverse(Ascending(adjacent)), 1, 0, offset)
        \o (IF num_regions >= 4
            THEN RegionPairs(Ascending(0..(num_regions - 4)), 0, 3, offset)
            ELSE << >>)
        \o (IF num_regions >= 3
            THEN RegionPairs(Ascending(0..(num_regions - 3)), 0, 2, offset)
            ELSE << >>)
        \o RegionPairs(Ascending({i \in adjacent : i % 2 = 0}), 0, 1, offset)
        \o RegionPairs(Ascending({i \in adjacent : i % 2 = 1}), 0, 1, offset)

IsPrefix(s, t) == Len(s) <= Len(t) /\ \A j \in 1..Len(s) : s[j] = t[j]

\* The sort is between two iterations, or past the last.
BetweenIterations(cl) == cl.pc \in {"while", "sorted", "done"} /\ cl.iteration > 1

\* C7: schedule of one iteration.  The calls of region_compare_exchange made
\* in an iteration are, in order, the start of the list C7 gives for N and
\* the iteration's offset, and the whole list once the iteration is over.
C7_Schedule ==
    sched.obs.iter_offset >= 1 =>
        LET claimed == ClaimedIteration(sched.client.n, sched.obs.iter_offset)
        IN  /\ IsPrefix(sched.obs.regions, claimed)
            /\ BetweenIterations(sched.client) => sched.obs.regions = claimed

\* The iteration at offset 1 of a sort of eight cells is over: all six
\* loops have made calls, thirty-two in all, the 3-hop loop five of them.
C7_Witness ==
    /\ sched.client.n = 8
    /\ sched.client.pc = "sorted"
    /\ sched.obs.iter_offset = 1
    /\ Len(sched.obs.regions) = 32
    /\ sched.obs.regions[14] = <<1, 0, 1>>
    /\ sched.obs.regions[19] = <<4, 7, 1>>

\* N/2, N/4, ..., 1
RECURSIVE Halvings(_)
Halvings(n) == IF n < 2 THEN << >> ELSE <<n \div 2>> \o Halvings(n \div 2)

\* The number of region pairs of one iteration over num_regions regions.
PairsPerIteration(num_regions) ==
    2 * (num_regions - 1)
    + (IF num_regions >= 4 THEN num_regions - 3 ELSE 0)
    + (IF num_regions >= 3 THEN num_regions - 2 ELSE 0)
    + (num_regions - 1)

\* The compare-exchanges of the iterations at offset, offset/2, ..., 1.
RECURSIVE PairsFrom(_, _)
PairsFrom(n, offset) ==
    IF offset < 1 THEN 0
    ELSE 4 * offset * PairsPerIteration(n \div offset) + PairsFrom(n, offset \div 2)

Sorted(cl) == cl.pc \in {"sorted", "done"}

\* What C8 says of every state of a sort.
C8_Safe ==
    LET cl  == sched.client
        srv == sched.server
        all == PairsFrom(cl.n, cl.n \div 2)
    IN  /\ cl.pc # "init" =>
              /\ IsPrefix(sched.obs.offsets, Halvings(cl.n))
              /\ srv.comparison_count <= all
              /\ srv.write_count <= all
        /\ Sorted(cl) =>
              /\ sched.obs.offsets = Halvings(cl.n)
              /\ srv.comparison_count = all
              /\ srv.write_count = all
              /\ cl.n = 1 => srv.comparison_count = 0 /\ srv.write_count = 0

SchedDone == sched.client.pc = "done"

\* C8: termination.  The offsets of the iterations entered are always a
\* start of N/2, N/4, ..., 1, and the Store's counts of reads and writes
\* stay within the compare-exchanges of the schedule; the sort does end,
\* and then every offset N/2, ..., 1 has been iterated once, in that order,
\* offset 1 last (no iteration and no request for N = 1).
C8_Terminates == []C8_Safe /\ <>[]SchedDone

\* A sort of eight cells is over after the iterations at offsets 4, 2 and 1.
C8_Witness ==
    /\ sched.client.pc = "done"
    /\ sched.client.n = 8
    /\ sched.obs.offsets = <<4, 2, 1>>

\* C9: region compare-exchange.  Inside a call a seed has been drawn for the
\* current matching and for each matching before it, the matchings number
\* fewer than 4, and the pairs written back are those of the completed
\* matchings and of i = 0 .. i-1 of the current one; the GetMate that
\* precedes a GetPair asked (size, seed, i) and the pair read is
\* (a_start + i, b_start + mate); when the call has returned, 4 matchings
\* and 4 seeds were made for 4 * size pairs.
C9_RegionCompareExchange ==
    \A r \in Runs :
        LET cl == client[r]
            ob == obs[r]
        IN  /\ cl.pc \in {"get_mate", "get_pair", "write_pair"} =>
                  /\ ob.matchings = cl.m /\ cl.m < 4
                  /\ ob.seeds_drawn = cl.m + 1
                  /\ ob.pairs = cl.m * cl.region_size + cl.i
                  /\ 0 <= cl.i /\ cl.i < cl.region_size
            /\ cl.pc = "seed" =>
                  /\ ob.matchings = cl.m /\ cl.m < 4
                  /\ ob.seeds_drawn = cl.m
                  /\ ob.pairs = cl.m * cl.region_size
            /\ cl.pc \in {"get_pair", "write_pair"} =>
                  /\ (IF cl.pc = "get_pair" THEN ob.last_op ELSE ob.prev_op)
                        = <<"GetMate", cl.region_size, cl.seed, cl.i>>
                  /\ cl.idx_a = cl.region_a_start + cl.i
                  /\ cl.idx_b = cl.region_b_start + cl.mate_i
                  /\ cl.mate_i = server[r].perm_cache[<<cl.region_size, cl.seed>>][cl.i]
            /\ (cl.pc \in {"call", "while", "sorted", "done"} /\ ob.regions # << >>) =>
                  /\ ob.matchings = 4
                  /\ ob.seeds_drawn = 4
                  /\ ob.pairs = 4 * ob.regions[Len(ob.regions)][3]

\* The fourth matching of a call on regions of two cells pairs i = 1 with
\* mate 0.
C9_Witness ==
    \E r \in Runs :
        /\ client[r].pc = "get_pair"
        /\ client[r].region_size = 2
        /\ client[r].m = 3
        /\ client[r].i = 1
        /\ client[r].mate_i = 0
        /\ obs[r].pairs = 7

\* The seeds of the GetMate requests of C10: with 1 .. 3! every permutation
\* of three cells is the answer to one of them.
MateSeeds == 1..Factorial(3)

\* What GetMate(size, seed, i) answers in the state srv of the Store, for
\* i = 0 .. size-1.
Mates(srv, size, seed) ==
    [i \in 0..(size - 1) |-> GetMate(srv, size, seed, i).mate]

\* C10: GetMate is a consistent permutation.  In every state of the Store,
\* whatever requests in whatever order have been served, for every size >= 1
\* and every seed: the values GetMate(size, seed, i) returns for
\* i = 0 .. size-1 are exactly 0 .. size-1; they are the values a Store that
\* has served nothing returns, so the same at every point between two
\* initialisations; and a call for any j leaves them as they are.
C10_GetMate ==
    \A size \in 1..3, seed \in MateSeeds :
        /\ Range(Mates(server[1], size, seed)) = 0..(size - 1)
        /\ Mates(server[1], size, seed) = Mates(ServerNew, size, seed)
        /\ \A j \in 0..(size - 1) :
              Mates(GetMate(server[1], size, seed, j).server, size, seed)
                  = Mates(server[1], size, seed)

\* Two permutations are cached, one of them of three cells and not the
\* identity, and both counters have moved since the upload.
C10_Witness ==
    LET srv == server[1]
    IN  /\ Cardinality(DOMAIN srv.perm_cache) >= 2
        /\ <<3, 2>> \in DOMAIN srv.perm_cache
        /\ srv.perm_cache[<<3, 2>>] # [k \in 0..2 |-> k]
        /\ srv.n = 2
        /\ srv.comparison_count > 0
        /\ srv.write_count > 0

\* The two requests that start a sorting phase.
Initialisations == {"Initialize", "UseHashArrayForSorting"}

\* C11: counter monotonicity and reset.  In every state of the Store,
\* whichever request is served next: if it is an Initialize or a
\* UseHashArrayForSorting answered OK, both counters are zero after it; if it
\* is any other request, or an initialisation that is rejected, neither
\* counter is lower after it than before.
C11_Counters ==
    \A req \in Requests :
        LET before == server[1]
            resp   == Serve(before, req)
        IN  IF req.op \in Initialisations /\ resp.status = "OK"
            THEN /\ resp.server.comparison_count = 0
                 /\ resp.server.write_count = 0
            ELSE /\ resp.server.comparison_count >= before.comparison_count
                 /\ resp.server.write_count >= before.write_count

\* Both counters have moved since the last initialisation and the hash
\* array is finalised: either initialisation resets counters that are not 0.
C11_Witness ==
    /\ server[1].comparison_count > 0
    /\ server[1].write_count > 0
    /\ server[1].hash_finalized
    /\ server[1].n = 2
    /\ obs[1].initialised

\* C12 as stated: since the last initialisation, comparisons is the number
\* of GetPair calls and writes the number of WritePair calls.
C12_EveryCallCounts ==
    obs[1].initialised =>
        /\ server[1].comparison_count = obs[1].get_pair_calls
        /\ server[1].write_count = obs[1].write_pair_calls

\* C12, amended: counter meaning.  Since the last initialisation,
\* comparisons is the number of GetPair calls and writes is the number of
\* WritePair calls that were answered OK; a GetPair counts one also when
\* index_a = index_b, and a WritePair answered OK counts one whether it
\* updates two cells or one.
C12_CounterMeaning ==
    LET srv == server[1]
    IN  /\ obs[1].initialised =>
              /\ srv.comparison_count = obs[1].get_pair_calls
              /\ srv.write_count = obs[1].write_pair_ok
        /\ \A i \in StoreIndices, j \in StoreIndices :
              /\ GetPair(srv, i, j).server.comparison_count = srv.comparison_count + 1
              /\ \A c \in StoreTokens :
                    LET resp == WritePair(srv, i, j, c, c)
                    IN  resp.server.write_count =
                            srv.write_count + (IF resp.status = "OK" THEN 1 ELSE 0)

\* Two GetPair and two WritePair calls since the upload of two cells, one of
\* the WritePair calls rejected.
C12_Witness ==
    /\ obs[1].initialised
    /\ server[1].n = 2
    /\ obs[1].get_pair_calls = 2
    /\ obs[1].write_pair_calls = 2
    /\ obs[1].write_pair_ok = 1

\* Two ciphertexts that no cell holds.
FreshA == Encrypt(0, 0 - 1)
FreshB == Encrypt(1, 0 - 2)

\* C13: WritePair effect and frame.  In every state of the Store, a
\* WritePair(i, j, c_i, c_j) with both indices in range is answered OK and
\* leaves A[i] = c_i and A[j] = c_j when i # j, writes higher by exactly 1, and
\* every other cell, N, comparisons and the permutation cache as they were.
C13_WritePairFrame ==
    LET srv == server[1]
    IN  \A i \in 0..(srv.n - 1), j \in 0..(srv.n - 1) :
            LET resp == WritePair(srv, i, j, FreshA, FreshB)
                A    == resp.server.encrypted_array
            IN  /\ resp.status = "OK"
                /\ i # j => A[i] = FreshA /\ A[j] = FreshB
                /\ resp.server.write_count = srv.write_count + 1
                /\ DOMAIN A = DOMAIN srv.encrypted_array
                /\ \A p \in DOMAIN A \ {i, j} : A[p] = srv.encrypted_array[p]
                /\ resp.server.n = srv.n
                /\ resp.server.comparison_count = srv.comparison_count
                /\ resp.server.perm_cache = srv.perm_cache

\* Three cells, so that a WritePair leaves a third one alone; a permutation
\* is cached, both counters are above 0 and a WritePair has been served.
C13_Witness ==
    /\ server[1].n = 3
    /\ obs[1].write_pair_ok > 0
    /\ server[1].write_count > 0
    /\ server[1].comparison_count > 0
    /\ server[1].perm_cache # << >>

\* C14: read-your-writes.  In every state of the Store after an
\* initialisation, GetPair(i, j) with both indices in range is answered OK
\* with, for each index, the ciphertext the last WritePair answered OK put
\* there, or the uploaded cell if there was none.
C14_ReadYourWrites ==
    obs[1].initialised =>
        /\ DOMAIN obs[1].stored = 0..(server[1].n - 1)
        /\ \A i \in 0..(server[1].n - 1), j \in 0..(server[1].n - 1) :
              LET resp == GetPair(server[1], i, j)
              IN  /\ resp.status = "OK"
                  /\ resp.encrypted_a = obs[1].stored[i]
                  /\ resp.encrypted_b = obs[1].stored[j]

\* Two WritePair requests have been accepted on an array of two cells, which
\* now differ, and a GetPair has been served.
C14_Witness ==
    /\ obs[1].initialised
    /\ server[1].n = 2
    /\ obs[1].write_pair_ok = 2
    /\ obs[1].get_pair_calls > 0
    /\ obs[1].stored[0] # obs[1].stored[1]

InRange(srv, idx) == 0 <= idx /\ idx < srv.n

\* C15: out-of-range indices.  In every state of the Store, GetPair and
\* WritePair with either index outside [0, N) are answered OUT_OF_RANGE, and
\* the rejected WritePair leaves every cell of the array, also the one whose
\* index is in range, and writes as they were.
C15_OutOfRange ==
    LET srv == server[1]
    IN  \A i \in StoreIndices, j \in StoreIndices :
            ~(InRange(srv, i) /\ InRange(srv, j)) =>
                LET read  == GetPair(srv, i, j)
                    write == WritePair(srv, i, j, FreshA, FreshB)
                IN  /\ read.status = "OUT_OF_RANGE"
                    /\ write.status = "OUT_OF_RANGE"
                    /\ write.server.encrypted_array = srv.encrypted_array
                    /\ write.server.write_count = srv.write_count

\* On an array of two cells a WritePair has been rejected and one accepted,
\* and a GetPair has been served.
C15_Witness ==
    /\ obs[1].initialised
    /\ server[1].n = 2
    /\ obs[1].write_pair_calls = 2
    /\ obs[1].write_pair_ok = 1
    /\ obs[1].get_pair_calls = 1

\* C16: GetMate range check.  In every state of the Store, GetMate(size,
\* seed, index) with index outside [0, size), so every call with size <= 0,
\* is answered OUT_OF_RANGE and leaves the permutation cache as it was.
C16_GetMateRange ==
    LET srv == server[1]
    IN  \A size \in (0 - 1)..3, seed \in MateSeeds, i \in MateIndices :
            /\ ~(0 <= i /\ i < size) =>
                  LET resp == GetMate(srv, size, seed, i)
                  IN  /\ resp.status = "OUT_OF_RANGE"
                      /\ resp.server.perm_cache = srv.perm_cache
            /\ size <= 0 => GetMate(srv, size, seed, i).status = "OUT_OF_RANGE"

\* The permutation of (2, 1) is cached and that of (3, 2) is not: an index
\* out of range is asked for a key that is cached and for one that is not.
C16_Witness ==
    /\ obs[1].initialised
    /\ DOMAIN server[1].perm_cache = {<<2, 1>>}

\* The Store srv is at the start of a sorting phase on the array cells.
AtStartOn(srv, cells) ==
    /\ srv.encrypted_array = cells
    /\ srv.n = Cardinality(DOMAIN cells)
    /\ srv.comparison_count = 0
    /\ srv.write_count = 0
    /\ srv.perm_cache = << >>

\* C17: initialisation effect.  In every state of the Store, Initialize(cells)
\* is answered OK and makes the sorting array equal to cells, and a
\* UseHashArrayForSorting that is answered OK makes it equal to the hash
\* array as it is; both leave N the length of the array, both counters 0
\* and the permutation cache empty, and reply success with array_size = N.
C17_InitialisationEffect ==
    LET srv == server[1]
        use == UseHashArrayForSorting(srv)
    IN  /\ \A cells \in PhaseArrays \cup StoreArrays :
              LET init == Initialize(srv, cells)
              IN  /\ init.status = "OK"
                  /\ AtStartOn(init.server, cells)
                  /\ init.success
                  /\ init.array_size = Cardinality(DOMAIN cells)
        /\ use.status = "OK" =>
              /\ AtStartOn(use.server, srv.hash_array)
              /\ use.success
              /\ use.array_size = Cardinality(DOMAIN srv.hash_array)

\* A hash array of two cells is finalised with a value in place, while the
\* sorting array is another one, both counters are above 0 and a permutation
\* is cached.
C17_Witness ==
    /\ server[1].hash_finalized
    /\ server[1].hash_expected = 2
    /\ server[1].hash_array[1] = HashValue
    /\ server[1].encrypted_array # server[1].hash_array
    /\ server[1].n = 3
    /\ server[1].comparison_count > 0
    /\ server[1].write_count > 0
    /\ server[1].perm_cache # << >>

\* C18: UseHashArrayForSorting precondition.  In every state of the Store in
\* which FinalizeHashArray has not been served since the last
\* InitializeHashArray that was answered OK (or at all), UseHashArrayForSorting
\* is answered FAILED_PRECONDITION and leaves the sorting array, N, the
\* counters and the permutation cache as they were.
C18_UseHashPrecondition ==
    ~obs[1].finalize_seen =>
        LET srv == server[1]
            use == UseHashArrayForSorting(srv)
        IN  /\ use.status = "FAILED_PRECONDITION"
            /\ use.server.encrypted_array = srv.encrypted_array
            /\ use.server.n = srv.n
            /\ use.server.comparison_count = srv.comparison_count
            /\ use.server.write_count = srv.write_count
            /\ use.server.perm_cache = srv.perm_cache

\* A hash array of two cells has been filled but not finalised, after an
\* earlier sorting phase that left three cells, counts above 0 and a cached
\* permutation.
C18_Witness ==
    /\ ~obs[1].finalize_seen
    /\ server[1].hash_expected = 2
    /\ server[1].hash_received = 2
    /\ server[1].n = 3
    /\ server[1].comparison_count > 0
    /\ server[1].write_count > 0
    /\ server[1].perm_cache # << >>

\* The requests of the sorting phase.
SortRequests == {req \in Requests : req.op \in {"GetPair", "WritePair", "GetMate"}}

\* C19: protocol misuse.  As long as neither Initialize nor
\* UseHashArrayForSorting has been answered OK, every GetPair, WritePair and
\* GetMate is answered with an error status.
C19_MisuseRejected ==
    ~obs[1].initialised =>
        \A req \in SortRequests : Serve(server[1], req).status # "OK"

\* n is 1, 2, 4, 8, ...
RECURSIVE IsPowerOfTwo(_)
IsPowerOfTwo(n) ==
    IF n <= 1 THEN n = 1 ELSE n % 2 = 0 /\ IsPowerOfTwo(n \div 2)

\* C20: power-of-two input.  Whichever driver has called
\* randomized_shellsort, the array_size it was handed, which is the length
\* of the Store's array, is a power of two.
C20_PowerOfTwoInput ==
    sched.client.pc # "init" =>
        /\ sched.client.n = sched.server.n
        /\ IsPowerOfTwo(sched.client.n)

\* The calls of region_compare_exchange the six for-loops make in the
\* iteration at offset, from loop number pass on.
RECURSIVE CallsFrom(_, _)
CallsFrom(pass, num_regions) ==
    IF pass > NumPasses THEN 0
    ELSE Len(PassRange(pass, num_regions)) + CallsFrom(pass + 1, num_regions)

\* c matchings of offset pairs for every call of every iteration, the
\* iterations being those of `while offset >= 1` from offset on.
RECURSIVE OperationCount(_, _)
OperationCount(n, offset) ==
    IF offset < 1 THEN 0
    ELSE DefaultC * offset * CallsFrom(1, n \div offset)
         + OperationCount(n, offset \div 2)

\* C21: operation count.  When the sort is over, the Store's counts of
\* comparisons and of writes, which GetFinalArray reports, both equal
\* 4 * (sum over the offsets N/2, ..., 1 of offset * the calls scheduled at
\* that offset), whatever the plaintexts; for N = 4 that is 72.
C21_OperationCount ==
    \A r \in Runs :
        Sorted(client[r]) =>
            LET resp == GetFinalArray(server[r])
                n    == client[r].n
            IN  /\ resp.total_comparisons = OperationCount(n, n \div 2)
                /\ resp.total_writes = resp.total_comparisons
                /\ n = 4 => resp.total_comparisons = 72

\* The sort of [1, 1, 1, 1] is over: 72 reads, 72 writes, and the array
\* decrypts to [1, 1, 1, 1].
C21_Witness ==
    \E r \in Runs :
        /\ client[r].pc = "done"
        /\ obs[r].uploaded = [p \in 0..3 |-> 1]
        /\ obs[r].final = [p \in 0..3 |-> 1]
        /\ server[r].comparison_count = 72
        /\ server[r].write_count = 72

StartsSort(srv, req) ==
    \/ req.op = "Initialize"
    \/ req.op = "UseHashArrayForSorting" /\ Serve(srv, req).status = "OK"

\* C24: the permutation cache is write-once-per-key.  In every state of the
\* Store every cached entry for (size, seed) is a permutation of
\* 0 .. size-1; whatever request is served next, an Initialize or an accepted
\* UseHashArrayForSorting leaves the cache empty, and every other request
\* (GetMate, GetPair, WritePair, GetFinalArray, the hash-array requests, a
\* rejected UseHashArrayForSorting) leaves every cached entry in the cache
\* with the value it had.
C24_CacheWriteOnce ==
    LET before == server[1].perm_cache
    IN  /\ \A key \in DOMAIN before :
              /\ DOMAIN before[key] = 0..(key[1] - 1)
              /\ Range(before[key]) = 0..(key[1] - 1)
        /\ \A req \in Requests :
              LET after == Serve(server[1], req).server.perm_cache
              IN  IF StartsSort(server[1], req)
                  THEN DOMAIN after = {}
                  ELSE \A key \in DOMAIN before :
                          key \in DOMAIN after /\ after[key] = before[key]

\* The permutation for (2, 1) is cached and is not the identity, the array
\* has been read and written since, and the hash array is finalised, so that
\* every request of C24 has its case.
C24_Witness ==
    LET srv == server[1]
    IN  /\ <<2, 1>> \in DOMAIN srv.perm_cache
        /\ srv.perm_cache[<<2, 1>>] = (0 :> 1) @@ (1 :> 0)
        /\ srv.hash_finalized
        /\ srv.hash_array # << >>
        /\ srv.n > 0
        /\ srv.comparison_count > 0
        /\ srv.write_count > 0

\* C25: guarded materialisation.  Whatever GetMate calls the pool's workers
\* handle at the same time, the permutation for a key (size, seed) is
\* computed and stored at most once.
C25_MaterialisedOnce ==
    \A key \in DOMAIN sched.stores : sched.stores[key] <= 1

\* No RPC is being handled.
PoolQuiet == \A w \in Workers : sched.workers[w].pc = "idle"

\* C26: serialised array access.  The two ciphertexts a GetPair(0, 1) has
\* returned are those of one upload or of one WritePair(0, 1, ..), never one
\* cell of a WritePair and one cell from before it; and once the WritePairs
\* that ran at the same time are over, the two cells are those of one of
\* them, never one cell of each.
C26_Serialised ==
    /\ \A w \in Workers :
          sched.workers[w].replied = "GetPair" =>
              Batch(sched.workers[w].encrypted_a) = Batch(sched.workers[w].encrypted_b)
    /\ (sched.uploaded /\ PoolQuiet) =>
          Batch(server[1].encrypted_array[0]) = Batch(server[1].encrypted_array[1])

\* A GetPair of this sort has returned a ciphertext that does not decrypt.
DecryptFailed(ob) == DecryptFails(ob.old_a) \/ DecryptFails(ob.old_b)

\* C27: abort on decryption failure.  Once a GetPair has returned a
\* ciphertext that does not decrypt, the sort has ended with the error
\* raised to its caller; the last request the Store has seen is that
\* GetPair, so no WritePair for the pair and no request after it; and the
\* array is as the upload or the last WritePair answered OK left it, with
\* as many writes counted as pairs were written back.
C27_AbortOnDecryptFailure ==
    \A r \in Runs :
        DecryptFailed(obs[r]) =>
            /\ client[r].pc = "raised"
            /\ obs[r].last_op = <<"GetPair", client[r].idx_a, client[r].idx_b>>
            /\ server[r].encrypted_array = obs[r].stored
            /\ server[r].write_count = server[r].comparison_count - 1

\* The second pair of the first matching holds the cell that does not
\* decrypt: the sort has ended after one WritePair, and the array still has
\* the placeholder at index 1.
C27_Witness ==
    \E r \in Runs :
        /\ client[r].pc = "raised"
        /\ client[r].idx_a = 1
        /\ DecryptFails(obs[r].old_a)
        /\ ~DecryptFails(obs[r].old_b)
        /\ server[r].write_count = 1
        /\ server[r].encrypted_array[1] = EmptyCell
        /\ obs[r].prev_op[1] = "GetMate"

\* C28: WritePair retry.  In every state of the Store, for every WritePair
\* request that is in range: served a second and a third time with the same
\* arguments it is answered OK each time, the array stays what the first
\* call made it, and writes goes up by one each time.
C28_WritePairRetry ==
    \A req \in Requests :
        (req.op = "WritePair" /\ InRange(server[1], req.idx_a)
                              /\ InRange(server[1], req.idx_b)) =>
            LET first  == Serve(server[1], req)
                second == Serve(first.server, req)
                third  == Serve(second.server, req)
            IN  /\ first.status = "OK" /\ second.status = "OK" /\ third.status = "OK"
                /\ second.server.encrypted_array = first.server.encrypted_array
                /\ third.server.encrypted_array = first.server.encrypted_array
                /\ first.server.write_count = server[1].write_count + 1
                /\ second.server.write_count = server[1].write_count + 2
                /\ third.server.write_count = server[1].write_count + 3

\* The same WritePair(0, 0, ..) has been accepted twice since an array of
\* three cells was uploaded: two writes are counted and the array is what the
\* first call made it.
C28_Witness ==
    /\ server[1].n = 3
    /\ obs[1].write_pair_ok = 2
    /\ server[1].write_count = 2
    /\ server[1].encrypted_array = (0 :> Rewritten) @@ (1 :> HashValue) @@ (2 :> HashValue)

\* What a read request is answered, without the Store it leaves.
Answer(resp) ==
    CASE resp.status # "OK" -> <<resp.status>>
      [] "mate" \in DOMAIN resp -> <<"OK", resp.mate>>
      [] "encrypted_a" \in DOMAIN resp -> <<"OK", resp.encrypted_a, resp.encrypted_b>>
      [] OTHER -> <<"OK", resp.encrypted_array>>

\* C29: the array is mutated only by WritePair.  In every state of the Store
\* after an initialisation the array is what that initialisation and the
\* WritePairs accepted since have stored; and every GetPair, GetMate and
\* GetFinalArray request, accepted or rejected, leaves every cell and N as
\* they are, and served again is answered as the first time.
C29_ReadsArePure ==
    /\ obs[1].initialised =>
          /\ server[1].encrypted_array = obs[1].stored
          /\ server[1].n = Cardinality(DOMAIN obs[1].stored)
    /\ \A req \in Requests :
          req.op \in {"GetPair", "GetMate", "GetFinalArray"} =>
              LET first  == Serve(server[1], req)
                  second == Serve(first.server, req)
              IN  /\ first.server.encrypted_array = server[1].encrypted_array
                  /\ first.server.n = server[1].n
                  /\ second.server.encrypted_array = server[1].encrypted_array
                  /\ second.server.n = server[1].n
                  /\ Answer(second) = Answer(first)

\* Since the upload of two cells a WritePair has changed the array, two
\* GetPairs have been served and a permutation is cached: the array is still
\* the one the WritePair left.
C29_Witness ==
    /\ obs[1].initialised
    /\ server[1].n = 2
    /\ obs[1].write_pair_ok = 1
    /\ obs[1].get_pair_calls = 2
    /\ server[1].comparison_count = 2
    /\ DOMAIN server[1].perm_cache # {}
    /\ server[1].encrypted_array[0] # server[1].encrypted_array[1]

\* C30: seed uniqueness.  When a matching has drawn its seed and has not
\* yet asked for a mate, the Store has no permutation cached for its
\* (size, seed): no earlier matching of the sort has used the same key.
C30_SeedUniqueness ==
    \A r \in Runs :
        (client[r].pc = "get_mate" /\ client[r].i = 0) =>
            <<client[r].region_size, client[r].seed>> \notin DOMAIN server[r].perm_cache

\* Two regions of size cells that start at a_start and b_start share no
\* index and lie inside [0, n).
DisjointInRange(n, a_start, b_start, size) ==
    /\ 0 <= a_start /\ a_start + size <= n
    /\ 0 <= b_start /\ b_start + size <= n
    /\ (a_start + size <= b_start \/ b_start + size <= a_start)

\* The offsets of `while offset >= 1` from offset on.
RECURSIVE OffsetsFrom(_)
OffsetsFrom(offset) ==
    IF offset < 1 THEN {} ELSE {offset} \cup OffsetsFrom(offset \div 2)

\* Every call the six for-loops make when an array of n cells is sorted is
\* on two disjoint regions of offset cells inside [0, n).
ScheduleDisjoint(n) ==
    \A offset \in OffsetsFrom(n \div 2) :
        \A pass \in 1..NumPasses :
            LET range == PassRange(pass, n \div offset)
            IN  \A k \in 1..Len(range) :
                    LET args == PassArgs(pass, range[k], offset)
                    IN  DisjointInRange(n, args[1], args[2], offset)

\* The lengths for which the schedule is computed as a whole.
ScheduleLogN == MaxLogN + 2

\* C31: disjoint, in-range regions.  Every call of region_compare_exchange
\* made so far in the current iteration is on two regions of offset cells
\* that do not overlap and lie inside [0, N); the indices of every GetPair
\* and WritePair differ and are in [0, N); the Store never answers
\* OUT_OF_RANGE, so the sort is never given up; and the schedule the loops
\* compute for N = 1, 2, 4, ..., 2^ScheduleLogN has only such calls.
C31_DisjointRegions ==
    \A r \in Runs :
        LET cl == client[r]
            ob == obs[r]
            n  == server[r].n
        IN  /\ cl.pc # "aborted"
            /\ \A j \in 1..Len(ob.regions) :
                  /\ ob.regions[j][3] = ob.iter_offset
                  /\ DisjointInRange(n, ob.regions[j][1], ob.regions[j][2],
                                     ob.regions[j][3])
            /\ cl.pc \in {"get_pair", "write_pair"} =>
                  /\ cl.idx_a # cl.idx_b
                  /\ cl.idx_a \in 0..(n - 1)
                  /\ cl.idx_b \in 0..(n - 1)
            /\ \A op \in {ob.prev_op, ob.last_op} :
                  op[1] \in {"GetPair", "WritePair"} =>
                      /\ op[2] # op[3]
                      /\ op[2] \in 0..(n - 1)
                      /\ op[3] \in 0..(n - 1)
            /\ cl.pc = "sort" =>
                  \A logn \in 0..ScheduleLogN : ScheduleDisjoint(Pow2(logn))

\* In the sort of four cells the 3-hop loop has paired the regions at 0 and
\* at 3, and the Store has answered the GetPair on (0, 3).
C31_Witness ==
    \E r \in Runs :
        /\ server[r].n = 4
        /\ client[r].pc = "write_pair"
        /\ client[r].pass = 3
        /\ client[r].region_a_start = 0
        /\ client[r].region_b_start = 3
        /\ obs[r].last_op = <<"GetPair", 0, 3>>

\* The requests in flight: sent and not served, or served and not returned.
InFlight == Len(sched.outstanding) + Len(sched.replies)

\* C32: strictly sequential orchestrator.  At most one request is in flight,
\* and the client is inside a call of the stub exactly while one is; the
\* Store is asked GetPair only after a GetMate, WritePair only after the
\* GetPair on the same two indices, and GetMate only first or right after a
\* WritePair; a request is sent only when the one before has returned; and
\* write_count <= comparison_count <= write_count + 1.
C32_Sequential ==
    \A r \in Runs :
        LET ob  == obs[r]
            srv == server[r]
        IN  /\ InFlight <= 1
            /\ (client[r].pc = "await") <=> (InFlight = 1)
            /\ ob.last_op[1] = "GetPair" => ob.prev_op[1] = "GetMate"
            /\ ob.last_op[1] = "WritePair" =>
                  ob.prev_op = <<"GetPair", ob.last_op[2], ob.last_op[3]>>
            /\ ob.last_op[1] = "GetMate" => ob.prev_op[1] \in {"None", "WritePair"}
            /\ \A j \in 1..Len(sched.outstanding) :
                  LET pc == sched.outstanding[j].cl.pc
                  IN  /\ pc = "get_mate" => ob.last_op[1] \in {"None", "WritePair"}
                      /\ pc = "get_pair" => ob.last_op[1] = "GetMate"
                      /\ pc = "write_pair" => ob.last_op[1] = "GetPair"
            /\ srv.write_count <= srv.comparison_count
            /\ srv.comparison_count <= srv.write_count + 1
            /\ (srv.comparison_count = srv.write_count + 1) =>
                  ob.last_op[1] = "GetPair"

\* The second GetMate of a sort is in flight: the first WritePair has been
\* served and has returned, one comparison and one write are counted.
C32_Witness ==
    \E r \in Runs :
        /\ Len(sched.outstanding) = 1
        /\ sched.outstanding[1].cl.pc = "get_mate"
        /\ client[r].pc = "await"
        /\ obs[r].last_op[1] = "WritePair"
        /\ obs[r].op_count = 3
        /\ server[r].comparison_count = 1
        /\ server[r].write_count = 1

\* C33: a rejected GetPair changes nothing.  In every state of a Store that
\* holds an uploaded array of at least one cell, a GetPair answered
\* OUT_OF_RANGE leaves the whole state of the Store, comparison_count
\* included, as it was.
C33_RejectedGetPairFrame ==
    (obs[1].initialised /\ server[1].n > 0) =>
        \A i \in StoreIndices, j \in StoreIndices :
            LET resp == GetPair(server[1], i, j)
            IN  resp.status = "OUT_OF_RANGE" => resp.server = server[1]

\* No cell of the array is the placeholder of InitializeHashArray.
Populated(arr) == \A p \in DOMAIN arr : arr[p] # EmptyCell

\* C34: fully populated sorting array.  In every state the Store reaches by
\* InitializeHashArray, SendHashValue and FinalizeHashArray calls (and the
\* requests of the sorting phase), a UseHashArrayForSorting answered OK
\* leaves a sorting array with no cell still the placeholder, and a
\* FinalizeHashArray reports success only if no position of the hash array
\* is still the placeholder.
C34_FullyPopulated ==
    LET use == UseHashArrayForSorting(server[1])
        fin == FinalizeHashArray(server[1])
    IN  /\ use.status = "OK" => Populated(use.server.encrypted_array)
        /\ fin.success => Populated(server[1].hash_array)

\* The compare-exchanges of the current matching that index idx takes part
\* in, on either side.
TakesPart(idx) ==
    Cardinality({j \in 1..Len(sched) : idx \in {sched[j][1], sched[j][2]}})

\* C35: a matching covers each position once.  While a matching of
\* region_compare_exchange(a_start, b_start, size) runs, no index takes part
\* in two of its compare-exchanges, the pairs are (a_start + j, an index of
\* region B) for j = 0, 1, ... in order; when the matching is over there are
\* size pairs and every index of region A and every index of region B has
\* taken part in exactly one (the list is that of the matching before until
\* the first seed of a call is drawn).
C35_MatchingCovers ==
    \A r \in Runs :
        LET cl == client[r]
            A  == cl.region_a_start..(cl.region_a_start + cl.region_size - 1)
            B  == cl.region_b_start..(cl.region_b_start + cl.region_size - 1)
        IN  /\ \A idx \in 0..(cl.n - 1) : TakesPart(idx) <= 1
            /\ ~(cl.pc = "seed" /\ cl.m = 0) =>
                  \A j \in 1..Len(sched) :
                      /\ sched[j][1] = cl.region_a_start + j - 1
                      /\ sched[j][2] \in B
            /\ (/\ sched # << >>
                /\ \/ cl.pc \in {"call", "while", "sorted", "done"}
                   \/ cl.pc = "seed" /\ cl.m > 0) =>
                  /\ Len(sched) = cl.region_size
                  /\ \A idx \in A \cup B : TakesPart(idx) = 1

\* A matching of the regions {0, 1} and {2, 3} is over, in which 0 was
\* paired with 3 and 1 with 2, and the next matching is about to begin.
C35_Witness ==
    \E r \in Runs :
        /\ client[r].pc = "seed"
        /\ client[r].m > 0
        /\ client[r].region_a_start = 0
        /\ client[r].region_b_start = 2
        /\ client[r].region_size = 2
        /\ sched = << <<0, 3>>, <<1, 2>> >>

\* The array of plaintexts is non-decreasing.
NonDecreasing(plain) ==
    \A p \in DOMAIN plain, q \in DOMAIN plain : p <= q => plain[p] <= plain[q]

\* C36: deterministic sorting for tiny arrays.  When the schedule for an
\* array of 2 or of 4 cells is over, whatever the plaintexts and whatever
\* the permutations GetMate answered with, the array the Store holds
\* decrypts to a non-decreasing array, and so does the array the client has
\* fetched and decrypted.
C36_TinyArraysSorted ==
    \A r \in Runs :
        (client[r].n \in {2, 4} /\ client[r].pc \in {"sorted", "done"}) =>
            /\ NonDecreasing(Plain(server[r].encrypted_array))
            /\ client[r].pc = "done" => NonDecreasing(obs[r].final)

\* The sort of [1, 1, 0, 0] is over; its matchings of two cells used both
\* permutations of two cells; the array decrypts to [0, 0, 1, 1].
C36_Witness ==
    \E r \in Runs :
        /\ client[r].pc = "done"
        /\ obs[r].uploaded = [p \in 0..3 |-> IF p < 2 THEN 1 ELSE 0]
        /\ {<<2, 1>>, <<2, 2>>} \subseteq DOMAIN server[r].perm_cache
        /\ server[r].perm_cache[<<2, 1>>] # server[r].perm_cache[<<2, 2>>]
        /\ obs[r].final = [p \in 0..3 |-> IF p < 2 THEN 0 ELSE 1]

====
